---- MODULE Spec2Model ----
(***************************************************************************)
(* A state-machine model of GameEngine (src/src/game/engine.ts).           *)
(*                                                                         *)
(* Conventions                                                             *)
(*   time          integer milliseconds (0.05 s = 50)                      *)
(*   hp, damage    integer thousandths (hp 180 = 180000)                   *)
(*   factors       integer thousandths (armor 0.16 = 160, x1.15 = 1150)    *)
(*   speed, range  integer hundredths                                      *)
(*   Math.random() an input u in 0..99, read as u/100                      *)
(*   geometry      positions are not modelled; which circles overlap in a  *)
(*                 tick is an input of update (touch, struck, collect,     *)
(*                 inside, inRange)                                        *)
(* The variable state holds RuntimeState plus the engine's id counter      *)
(* (ids) and the character id; the variable call records what the last     *)
(* public call was, what it returned and what it did (observations only:   *)
(* no operator of the engine reads it back).                               *)
(***************************************************************************)
EXTENDS Integers, Sequences, FiniteSets, TLC

VARIABLES state, call

vars == <<state, call>>

(* ------------------------------ constants ------------------------------ *)

MAX_MONSTERS_BASE == 180
MAX_MONSTERS_PER_STAGE == 24
MAX_GEMS == 520
MAX_PARTICLES == 900
MAX_DAMAGE_TEXTS == 180
PARTICLE_LIFE == 500
DAMAGE_TEXT_LIFE == 650
SLASH_LIFE == 220
BEAM_LIFE == 180
LIGHTNING_LIFE == 200
PROJECTILE_LIFE == 1250
MaxDt == 50
InvincibleTime == 620
StageClearGrace == 2800
MaxLevelsPerGain == 24
MaxSkillLevel == 8
InitialExpToNext == 35
BossExpValue == 100

CharacterIds == {"warrior", "mage", "archer"}

CHARACTER_CONFIGS ==
    [warrior |-> [attackStyle |-> "slash_projectile", maxHp |-> 180000, speed |-> 25500,
                  damage |-> 30000, attackInterval |-> 750, range |-> 18400,
                  projectiles |-> 1, critChance |-> 120, armor |-> 160],
     mage    |-> [attackStyle |-> "magic_aoe", maxHp |-> 120000, speed |-> 27000,
                  damage |-> 24000, attackInterval |-> 580, range |-> 52000,
                  projectiles |-> 1, critChance |-> 160, armor |-> 50],
     archer  |-> [attackStyle |-> "arrow", maxHp |-> 135000, speed |-> 30500,
                  damage |-> 21000, attackInterval |-> 320, range |-> 47000,
                  projectiles |-> 1, critChance |-> 110, armor |-> 80]]

MONSTER_CONFIGS ==
    [slime    |-> [hp |-> 28000, damage |-> 8000,  exp |-> 8],
     bat      |-> [hp |-> 22000, damage |-> 7000,  exp |-> 9],
     skeleton |-> [hp |-> 44000, damage |-> 10000, exp |-> 12],
     scorpion |-> [hp |-> 58000, damage |-> 13000, exp |-> 14],
     mummy    |-> [hp |-> 72000, damage |-> 15000, exp |-> 16],
     flame    |-> [hp |-> 82000, damage |-> 18000, exp |-> 18]]

\* the bosses' names are given in English
STAGES ==
    << [duration |-> 65000, spawnBaseInterval |-> 900, spawnMinInterval |-> 360,
        monsterPool |-> <<"slime", "bat">>,
        boss |-> [name |-> "King Slime", hp |-> 1000000, damage |-> 24000]],
       [duration |-> 72000, spawnBaseInterval |-> 780, spawnMinInterval |-> 300,
        monsterPool |-> <<"bat", "skeleton">>,
        boss |-> [name |-> "Gargoyle Lord", hp |-> 1400000, damage |-> 28000]],
       [duration |-> 80000, spawnBaseInterval |-> 720, spawnMinInterval |-> 270,
        monsterPool |-> <<"scorpion", "mummy">>,
        boss |-> [name |-> "Desert Predator", hp |-> 1850000, damage |-> 31000]],
       [duration |-> 88000, spawnBaseInterval |-> 650, spawnMinInterval |-> 240,
        monsterPool |-> <<"flame", "mummy", "scorpion">>,
        boss |-> [name |-> "Magma Golem", hp |-> 2500000, damage |-> 35000]],
       [duration |-> 96000, spawnBaseInterval |-> 580, spawnMinInterval |-> 200,
        monsterPool |-> <<"skeleton", "flame", "mummy", "bat">>,
        boss |-> [name |-> "Demon Lord", hp |-> 4200000, damage |-> 42000]] >>

UPGRADES ==
    << "damage", "attackSpeed", "maxHp", "heal", "moveSpeed", "projectiles",
       "range", "crit", "armor", "magnet", "pierce" >>

SkillUpgrades == << "skillLightning", "skillBlade", "skillLaser" >>

UpgradeTypes == {UPGRADES[i] : i \in 1..Len(UPGRADES)} \cup {SkillUpgrades[i] : i \in 1..3}

SKILL_UPGRADE_MAP(type) ==
    CASE type = "skillLightning" -> "lightning"
      [] type = "skillBlade" -> "blade"
      [] type = "skillLaser" -> "laser"
      [] OTHER -> "none"

(* ------------------------------- helpers ------------------------------- *)

Min(a, b) == IF a < b THEN a ELSE b

Max(a, b) == IF a > b THEN a ELSE b

clamp(v, lo, hi) == Max(lo, Min(hi, v))

\* Math.random() * (max - min) + min, with Math.random() = u / 100
randomRange(lo, hi, u) == lo + (u * (hi - lo)) \div 100

\* arr[Math.floor(Math.random() * arr.length)]
pickRandom(arr, u) == arr[((u * Len(arr)) \div 100) + 1]

\* floor(x * f / 1000) for x >= 0 and a factor f in thousandths, computed in two
\* parts to stay inside 32-bit integers
Scale(x, f) == (x \div 1000) * f + ((x % 1000) * f) \div 1000

\* the sum of a sequence of numbers, halves first
RECURSIVE SumSeq(_)
SumSeq(q) ==
    IF q = <<>> THEN 0
    ELSE IF Len(q) = 1 THEN q[1]
    ELSE SumSeq(SubSeq(q, 1, Len(q) \div 2)) + SumSeq(SubSeq(q, Len(q) \div 2 + 1, Len(q)))

\* Let([x \in {e} |-> body]) is body with x standing for the value of e, which is
\* computed once
Let(f) == f[CHOOSE v \in DOMAIN f : TRUE]

\* the shuffle of pickRandomUnique, sampled by its rotations: seed picks where
\* the shuffled copy starts
pickRandomUnique(arr, n, seed) ==
    LET len == Len(arr)
        rot == [i \in 1..len |-> arr[((i - 1 + seed) % len) + 1]]
    IN  IF len = 0 THEN <<>> ELSE SubSeq(rot, 1, Min(n, len))

(* ------------------------- ids, audio, cosmetics ------------------------ *)

\* this.config.attackStyle
attackStyle(s) == CHARACTER_CONFIGS[s.characterId].attackStyle

currentStage(s) == STAGES[Min(s.stageIndex, Len(STAGES) - 1) + 1]

\* this.ids += 1; return this.ids
nextId(s) == s.ids + 1

emitAudio(s, type) ==
    [s EXCEPT !.ids = nextId(s),
              !.audioEvents = Append(@, [id |-> nextId(s), type |-> type])]

ParticleCount(s) == SumSeq([i \in 1..Len(s.particles) |-> s.particles[i].n])

\* what a call of emitBurst did: the particles asked for, those there before it
\* and after it, those it made (each takes an id)
noteBurst(before, after, count) ==
    [after EXCEPT !.obs.bursts = Append(@,
        [count |-> count, before |-> ParticleCount(before),
         after |-> ParticleCount(after), made |-> after.ids - before.ids])]

\* what a call of spawnDamageText did: the texts there before it and after it,
\* whether the oldest of them was kept, whether the new one is there
noteText(before, after) ==
    [after EXCEPT !.obs.texts = Append(@,
        [before |-> Len(before.damageTexts), after |-> Len(after.damageTexts),
         id |-> after.ids,
         oldestKept |-> /\ before.damageTexts # <<>>
                        /\ \E i \in 1..Len(after.damageTexts) :
                               after.damageTexts[i].id = before.damageTexts[1].id,
         present |-> \E i \in 1..Len(after.damageTexts) :
                        after.damageTexts[i].id = after.ids])]

\* emitBurst without the cap
emitBurstUncapped(s, count) ==
    noteBurst(s,
        [s EXCEPT !.ids = @ + count,
                  !.particles = Append(@,
                      [life |-> Scale(PARTICLE_LIFE, randomRange(700, 1300, s.inp.u)),
                       n |-> count])],
        count)

\* particles are kept as groups <<life, n>>: one group per burst, every particle
\* of it taking one id; the random life factor is read once per burst
emitBurst(s, count) ==
    noteBurst(s,
        IF ParticleCount(s) >= MAX_PARTICLES THEN s
        ELSE LET allowance == Min(count, MAX_PARTICLES - ParticleCount(s))
             IN  IF allowance <= 0 THEN s
                 ELSE [s EXCEPT !.ids = @ + allowance,
                                !.particles = Append(@,
                                    [life |-> Scale(PARTICLE_LIFE,
                                                    randomRange(700, 1300, s.inp.u)),
                                     n |-> allowance])],
        count)

\* spawnDamageText without the shift of the oldest text
spawnDamageTextUnshifted(s) ==
    noteText(s,
        [s EXCEPT !.ids = nextId(s),
                  !.damageTexts = Append(@, [id |-> nextId(s), life |-> DAMAGE_TEXT_LIFE])])

spawnDamageText(s) ==
    LET kept == IF Len(s.damageTexts) >= MAX_DAMAGE_TEXTS
                THEN Tail(s.damageTexts) ELSE s.damageTexts
    IN  noteText(s,
            [s EXCEPT !.ids = nextId(s),
                      !.damageTexts = Append(kept, [id |-> nextId(s),
                                                    life |-> DAMAGE_TEXT_LIFE])])

(* -------------------------- progression, upgrades ----------------------- *)

\* makeUpgradeChoices offering every stat upgrade to every character
makeUpgradeChoicesUnfiltered(s) ==
    LET statPool == UPGRADES
        skillPool == SkillUpgrades
        unlockedMissing == SelectSeq(skillPool,
                               LAMBDA id : s.skills[SKILL_UPGRADE_MAP(id)] <= 0)
        fullPool == statPool \o skillPool
    IN  Let([first \in {IF Len(unlockedMissing) > 0
                        THEN << pickRandom(unlockedMissing, s.inp.u) >> ELSE <<>>} |->
        Let([remainingPool \in {SelectSeq(fullPool,
                                    LAMBDA id : \A k \in 1..Len(first) : first[k] # id)} |->
        Let([chosen \in {first \o pickRandomUnique(remainingPool, Max(0, 3 - Len(first)),
                                                   s.inp.seed)} |->
            SubSeq(chosen, 1, Min(3, Len(chosen)))])])])

makeUpgradeChoices(s) ==
    LET statPool == SelectSeq(UPGRADES,
                        LAMBDA id : IF attackStyle(s) = "slash_projectile"
                                    THEN id # "projectiles" /\ id # "pierce"
                                    ELSE TRUE)
        skillPool == SkillUpgrades
        unlockedMissing == SelectSeq(skillPool,
                               LAMBDA id : s.skills[SKILL_UPGRADE_MAP(id)] <= 0)
        fullPool == statPool \o skillPool
    IN  Let([first \in {IF Len(unlockedMissing) > 0
                        THEN << pickRandom(unlockedMissing, s.inp.u) >> ELSE <<>>} |->
        Let([remainingPool \in {SelectSeq(fullPool,
                                    LAMBDA id : \A k \in 1..Len(first) : first[k] # id)} |->
        Let([chosen \in {first \o pickRandomUnique(remainingPool, Max(0, 3 - Len(first)),
                                                   s.inp.seed)} |->
            SubSeq(chosen, 1, Min(3, Len(chosen)))])])])

\* the while loop of gainExp leaving exp = expToNext unspent
RECURSIVE LevelLoopStrict(_, _)
LevelLoopStrict(p, leveled) ==
    IF p.exp > p.expToNext /\ leveled < MaxLevelsPerGain
    THEN LevelLoopStrict([p EXCEPT !.exp = @ - p.expToNext,
                                   !.level = @ + 1,
                                   !.expToNext = (p.expToNext * 128) \div 100 + 16],
                         leveled + 1)
    ELSE [player |-> p, leveled |-> leveled]

\* the while loop of gainExp as an if: one level per gain at most
LevelLoopOnce(p, leveled) ==
    IF p.exp >= p.expToNext /\ leveled < MaxLevelsPerGain
    THEN [player |-> [p EXCEPT !.exp = @ - p.expToNext,
                               !.level = @ + 1,
                               !.expToNext = (p.expToNext * 128) \div 100 + 16],
          leveled |-> leveled + 1]
    ELSE [player |-> p, leveled |-> leveled]

\* the while loop of gainExp
RECURSIVE LevelLoop(_, _)
LevelLoop(p, leveled) ==
    IF p.exp >= p.expToNext /\ leveled < MaxLevelsPerGain
    THEN LevelLoop([p EXCEPT !.exp = @ - p.expToNext,
                             !.level = @ + 1,
                             !.expToNext = (p.expToNext * 128) \div 100 + 16],
                   leveled + 1)
    ELSE [player |-> p, leveled |-> leveled]

\* what a call of gainExp did: the player and the gate before it and after it
noteGain(before, after, amount) ==
    [after EXCEPT !.obs.gains = Append(@,
        [amount |-> amount,
         exp |-> before.player.exp, expToNext |-> before.player.expToNext,
         level |-> before.player.level, pending |-> before.pendingLevelUps,
         gate |-> before.awaitingUpgrade,
         expAfter |-> after.player.exp, levelAfter |-> after.player.level,
         expToNextAfter |-> after.player.expToNext,
         pendingAfter |-> after.pendingLevelUps, gateAfter |-> after.awaitingUpgrade])]

\* gainExp counting one pending choice for a gain, however many levels it brought
gainExpCountingOnce(s, amount) ==
    IF amount <= 0 THEN s
    ELSE Let([r \in {LevelLoop([s.player EXCEPT !.exp = @ + amount], 0)} |->
         Let([s1 \in {[s EXCEPT !.player = r.player]} |->
             IF r.leveled <= 0 THEN noteGain(s, s1, amount)
             ELSE Let([s2 \in {[s1 EXCEPT !.pendingLevelUps = @ + 1,
                                          !.obs.levels = @ + r.leveled]} |->
                  noteGain(s, emitAudio(IF ~s2.awaitingUpgrade
                                        THEN [s2 EXCEPT !.awaitingUpgrade = TRUE,
                                                        !.upgradeChoices =
                                                            makeUpgradeChoices(s2)]
                                        ELSE s2,
                                        "level_up"),
                           amount)])])])

\* gainExp counting the levels of a gain only when it opens the gate
gainExpOpeningOnly(s, amount) ==
    IF amount <= 0 THEN s
    ELSE Let([r \in {LevelLoop([s.player EXCEPT !.exp = @ + amount], 0)} |->
         Let([s1 \in {[s EXCEPT !.player = r.player]} |->
             IF r.leveled <= 0 THEN noteGain(s, s1, amount)
             ELSE Let([s2 \in {[s1 EXCEPT !.obs.levels = @ + r.leveled]} |->
                  noteGain(s, emitAudio(IF ~s2.awaitingUpgrade
                                        THEN [s2 EXCEPT !.awaitingUpgrade = TRUE,
                                                        !.pendingLevelUps = @ + r.leveled,
                                                        !.upgradeChoices =
                                                            makeUpgradeChoices(s2)]
                                        ELSE s2,
                                        "level_up"),
                           amount)])])])

gainExp(s, amount) ==
    IF amount <= 0 THEN s
    ELSE Let([r \in {LevelLoop([s.player EXCEPT !.exp = @ + amount], 0)} |->
         Let([s1 \in {[s EXCEPT !.player = r.player]} |->
             IF r.leveled <= 0 THEN noteGain(s, s1, amount)
             ELSE Let([s2 \in {[s1 EXCEPT !.pendingLevelUps = @ + r.leveled,
                                          !.obs.levels = @ + r.leveled]} |->
                  noteGain(s, emitAudio(IF ~s2.awaitingUpgrade
                                        THEN [s2 EXCEPT !.awaitingUpgrade = TRUE,
                                                        !.upgradeChoices =
                                                            makeUpgradeChoices(s2)]
                                        ELSE s2,
                                        "level_up"),
                           amount)])])])

applyStatUpgrade(s, type) ==
    LET melee == attackStyle(s) = "slash_projectile"
    IN  CASE type = "damage" -> [s EXCEPT !.player.damage = Scale(@, 1150)]
          [] type = "attackSpeed" ->
                [s EXCEPT !.player.attackInterval = Max(160, Scale(@, 870))]
          [] type = "maxHp" -> [s EXCEPT !.player.maxHp = @ + 20000,
                                         !.player.hp = @ + 20000]
          [] type = "heal" -> [s EXCEPT !.player.hp = @ + 30000]
          [] type = "moveSpeed" -> [s EXCEPT !.player.speed = Scale(@, 1120)]
          [] type = "projectiles" ->
                IF ~melee THEN [s EXCEPT !.player.projectiles = @ + 1]
                ELSE [s EXCEPT !.player.damage = Scale(@, 1080)]
          [] type = "range" -> [s EXCEPT !.player.range = Scale(@, 1140)]
          [] type = "crit" -> [s EXCEPT !.player.critChance = Min(850, @ + 80)]
          [] type = "armor" -> [s EXCEPT !.player.armor = Min(750, @ + 70)]
          [] type = "magnet" -> [s EXCEPT !.player.magnetRadius = @ + 60]
          [] type = "pierce" ->
                IF ~melee THEN [s EXCEPT !.player.pierce = @ + 1]
                ELSE [s EXCEPT !.player.damage = Scale(@, 1080)]
          [] OTHER -> s

applySkillUpgrade(s, skillId) ==
    Let([s1 \in {[s EXCEPT !.skills[skillId] = Min(MaxSkillLevel, @ + 1)]} |->
        CASE skillId = "lightning" -> [s1 EXCEPT !.lightningCooldown = Min(@, 200)]
          [] skillId = "laser" -> [s1 EXCEPT !.laserCooldown = Min(@, 200)]
          [] skillId = "blade" -> [s1 EXCEPT !.bladeTickCooldown = Min(@, 50)]
          [] OTHER -> s1])

\* applyUpgrade without its guard
applyUpgradeUngated(s, type) ==
    LET skillTarget == SKILL_UPGRADE_MAP(type)
    IN  Let([s1 \in {IF skillTarget # "none" THEN applySkillUpgrade(s, skillTarget)
                     ELSE applyStatUpgrade(s, type)} |->
        Let([s2 \in {[s1 EXCEPT !.player.hp = clamp(@, 0, s1.player.maxHp),
                               !.pendingLevelUps = Max(0, @ - 1),
                               !.obs.applied = TRUE]} |->
            IF s2.pendingLevelUps > 0
            THEN [s2 EXCEPT !.awaitingUpgrade = TRUE,
                            !.upgradeChoices = makeUpgradeChoices(s2)]
            ELSE [s2 EXCEPT !.awaitingUpgrade = FALSE,
                            !.upgradeChoices = <<>>]])])

\* applyUpgrade taking only an id that is among the choices offered
applyUpgradeOfOffered(s, type) ==
    IF ~s.awaitingUpgrade \/ s.pendingLevelUps <= 0 THEN s
    ELSE IF \A k \in 1..Len(s.upgradeChoices) : s.upgradeChoices[k] # type THEN s
    ELSE applyUpgradeUngated(s, type)

\* applyUpgrade closing the gate with the last choices left on the table
applyUpgradeKeepingChoices(s, type) ==
    IF ~s.awaitingUpgrade \/ s.pendingLevelUps <= 0 THEN s
    ELSE LET skillTarget == SKILL_UPGRADE_MAP(type)
         IN  Let([s1 \in {IF skillTarget # "none" THEN applySkillUpgrade(s, skillTarget)
                          ELSE applyStatUpgrade(s, type)} |->
             Let([s2 \in {[s1 EXCEPT !.player.hp = clamp(@, 0, s1.player.maxHp),
                                    !.pendingLevelUps = Max(0, @ - 1),
                                    !.obs.applied = TRUE]} |->
                 IF s2.pendingLevelUps > 0
                 THEN [s2 EXCEPT !.awaitingUpgrade = TRUE,
                                 !.upgradeChoices = makeUpgradeChoices(s2)]
                 ELSE [s2 EXCEPT !.awaitingUpgrade = FALSE]])])

applyUpgrade(s, type) ==
    IF ~s.awaitingUpgrade \/ s.pendingLevelUps <= 0 THEN s
    ELSE LET skillTarget == SKILL_UPGRADE_MAP(type)
         IN  Let([s1 \in {IF skillTarget # "none" THEN applySkillUpgrade(s, skillTarget)
                          ELSE applyStatUpgrade(s, type)} |->
             Let([s2 \in {[s1 EXCEPT !.player.hp = clamp(@, 0, s1.player.maxHp),
                                    !.pendingLevelUps = Max(0, @ - 1),
                                    !.obs.applied = TRUE]} |->
                 IF s2.pendingLevelUps > 0
                 THEN [s2 EXCEPT !.awaitingUpgrade = TRUE,
                                 !.upgradeChoices = makeUpgradeChoices(s2)]
                 ELSE [s2 EXCEPT !.awaitingUpgrade = FALSE,
                                 !.upgradeChoices = <<>>]])])

(* ------------------------------ the stage ------------------------------- *)

updatePlayer(s, dt) ==
    [s EXCEPT !.player.invincibleTimer = Max(0, @ - dt)]

spawnMonster(s) ==
    LET stage == currentStage(s)
        kind == pickRandom(stage.monsterPool, s.inp.u)
        base == MONSTER_CONFIGS[kind]
        stageFactor == 1000 + s.stageIndex * 230
        timeFactor == 1000 + ((stage.duration - s.stageTimeLeft) * 550) \div stage.duration
        hp == Scale(Scale(base.hp, stageFactor), timeFactor)
    IN  [s EXCEPT !.ids = nextId(s),
                  !.monsters = Append(@, [id |-> nextId(s), kind |-> kind, hp |-> hp,
                                          damage |-> Scale(base.damage, stageFactor),
                                          expValue |-> base.exp, isBoss |-> FALSE]),
                  !.obs.spawned = @ + 1]

spawnBoss(s) ==
    LET bossData == currentStage(s).boss
    IN  emitAudio(
            emitBurst([s EXCEPT !.ids = nextId(s),
                                !.monsters = Append(@, [id |-> nextId(s), kind |-> "boss",
                                                        hp |-> bossData.hp,
                                                        damage |-> bossData.damage,
                                                        expValue |-> BossExpValue,
                                                        isBoss |-> TRUE]),
                                !.bossSpawned = TRUE,
                                !.bossId = nextId(s),
                                !.bossAttackCooldown = randomRange(2200, 3200, s.inp.u),
                                !.obs.bossSpawns = @ + 1],
                      26),
            "boss_spawn")

\* the stage timer of updateStage: it runs until the boss is spawned
stageClock(s, dt) ==
    IF s.bossSpawned THEN s
    ELSE Let([a \in {[s EXCEPT !.stageTimeLeft = Max(0, @ - dt)]} |->
             IF a.stageTimeLeft <= 0 THEN spawnBoss(a) ELSE a])

\* updateStage with a spawn that goes on while the boss is there
updateStageSpawningOn(s, dt) ==
    Let([s2 \in {[stageClock(s, dt) EXCEPT !.spawnTimer = @ - dt]} |->
        IF s2.spawnTimer <= 0
        THEN LET stage == currentStage(s2)
                 monsterCap == MAX_MONSTERS_BASE + s2.stageIndex * MAX_MONSTERS_PER_STAGE
                 elapsed == 1000 - (s2.stageTimeLeft * 1000) \div stage.duration
                 minInterval == stage.spawnMinInterval
                 interval == stage.spawnBaseInterval
                             - Scale(stage.spawnBaseInterval - minInterval, elapsed)
             IN  [(IF Len(s2.monsters) < monsterCap THEN spawnMonster(s2) ELSE s2)
                      EXCEPT !.spawnTimer =
                          Scale(Max(minInterval, interval), randomRange(800, 1200, s2.inp.u))]
        ELSE s2])

updateStage(s, dt) ==
    Let([s2 \in {[stageClock(s, dt) EXCEPT !.spawnTimer = @ - dt]} |->
        IF s2.spawnTimer <= 0 /\ ~s2.bossSpawned
        THEN LET stage == currentStage(s2)
                 monsterCap == MAX_MONSTERS_BASE + s2.stageIndex * MAX_MONSTERS_PER_STAGE
                 \* elapsed = 1 - stageTimeLeft / duration, in thousandths
                 elapsed == 1000 - (s2.stageTimeLeft * 1000) \div stage.duration
                 minInterval == stage.spawnMinInterval
                 interval == stage.spawnBaseInterval
                             - Scale(stage.spawnBaseInterval - minInterval, elapsed)
             IN  [(IF Len(s2.monsters) < monsterCap THEN spawnMonster(s2) ELSE s2)
                      EXCEPT !.spawnTimer =
                          Scale(Max(minInterval, interval), randomRange(800, 1200, s2.inp.u))]
        ELSE s2])

\* advanceToNextStage without the partial restore of the player's hp
advanceWithoutRestore(s) ==
    IF \/ ~s.stageClearReady
       \/ s.stageIndex >= Len(STAGES) - 1
       \/ s.awaitingUpgrade
       \/ s.pendingLevelUps > 0
    THEN s
    ELSE LET nextStage == STAGES[Min(s.stageIndex + 1, Len(STAGES) - 1) + 1]
         IN  emitBurst([s EXCEPT !.stageIndex = @ + 1,
                              !.stageTimeLeft = nextStage.duration,
                              !.spawnTimer = 1000,
                              !.bossSpawned = FALSE,
                              !.bossId = 0,
                              !.stageClearReady = FALSE,
                              !.stageClearDelay = 0,
                              !.paused = FALSE,
                              !.monsters = <<>>,
                              !.projectiles = <<>>,
                              !.gems = <<>>,
                              !.bossTelegraphs = <<>>,
                              !.bossAttackCooldown = 2800,
                              !.combo = 0,
                              !.obs.advanced = TRUE],
                       24)

\* advanceToNextStage without a look at the upgrade gate
advanceThroughGate(s) ==
    IF \/ ~s.stageClearReady
       \/ s.stageIndex >= Len(STAGES) - 1
    THEN s
    ELSE LET nextStage == STAGES[Min(s.stageIndex + 1, Len(STAGES) - 1) + 1]
         IN  emitBurst([s EXCEPT !.stageIndex = @ + 1,
                              !.stageTimeLeft = nextStage.duration,
                              !.spawnTimer = 1000,
                              !.bossSpawned = FALSE,
                              !.bossId = 0,
                              !.stageClearReady = FALSE,
                              !.stageClearDelay = 0,
                              !.paused = FALSE,
                              !.monsters = <<>>,
                              !.projectiles = <<>>,
                              !.gems = <<>>,
                              !.bossTelegraphs = <<>>,
                              !.bossAttackCooldown = 2800,
                              !.combo = 0,
                              !.player.hp = Min(s.player.maxHp,
                                                @ + (s.player.maxHp * 24) \div 100),
                              !.obs.advanced = TRUE],
                       24)

advanceToNextStage(s) ==
    IF \/ ~s.stageClearReady
       \/ s.stageIndex >= Len(STAGES) - 1
       \/ s.awaitingUpgrade
       \/ s.pendingLevelUps > 0
    THEN s
    ELSE LET nextStage == STAGES[Min(s.stageIndex + 1, Len(STAGES) - 1) + 1]
         IN  emitBurst([s EXCEPT !.stageIndex = @ + 1,
                              !.stageTimeLeft = nextStage.duration,
                              !.spawnTimer = 1000,
                              !.bossSpawned = FALSE,
                              !.bossId = 0,
                              !.stageClearReady = FALSE,
                              !.stageClearDelay = 0,
                              !.paused = FALSE,
                              !.monsters = <<>>,
                              !.projectiles = <<>>,
                              !.gems = <<>>,
                              !.bossTelegraphs = <<>>,
                              !.bossAttackCooldown = 2800,
                              !.combo = 0,
                              !.player.hp = Min(s.player.maxHp,
                                                @ + (s.player.maxHp * 24) \div 100),
                              !.obs.advanced = TRUE],
                       24)

\* updateStageClearTransition running the delay down without advancing
stageClearTransitionStalled(s, dt) ==
    IF \/ s.awaitingUpgrade
       \/ s.stageIndex >= Len(STAGES) - 1
       \/ s.gameOver
       \/ s.victory
    THEN s
    ELSE [s EXCEPT !.stageClearDelay = Max(0, @ - dt)]

updateStageClearTransition(s, dt) ==
    IF \/ s.awaitingUpgrade
       \/ s.stageIndex >= Len(STAGES) - 1
       \/ s.gameOver
       \/ s.victory
    THEN s
    ELSE Let([s1 \in {[s EXCEPT !.stageClearDelay = Max(0, @ - dt)]} |->
             IF s1.stageClearDelay > 0 THEN s1 ELSE advanceToNextStage(s1)])

(* --------------------------- boss telegraphs ---------------------------- *)

\* applyTelegraphDamageToPlayer without its floor at 0 and its game over
telegraphDamageUnfloored(s, incomingDamage, armorFactor) ==
    LET reduced == Scale(incomingDamage, 1000 - Scale(s.player.armor, armorFactor))
    IN  emitBurst(
            emitAudio(
                spawnDamageText([s EXCEPT !.player.hp = @ - reduced,
                                          !.player.invincibleTimer = InvincibleTime,
                                          !.combo = 0,
                                          !.obs.hits = @ + 1,
                                          !.obs.taken = @ + reduced]),
                "player_hit"),
            10)

applyTelegraphDamageToPlayer(s, incomingDamage, armorFactor) ==
    LET reduced == Scale(incomingDamage, 1000 - Scale(s.player.armor, armorFactor))
    IN  Let([s2 \in {emitBurst(
                         emitAudio(
                             spawnDamageText([s EXCEPT !.player.hp = @ - reduced,
                                                       !.player.invincibleTimer = InvincibleTime,
                                                       !.combo = 0,
                                                       !.obs.hits = @ + 1,
                                                       !.obs.taken = @ + reduced]),
                             "player_hit"),
                         10)} |->
            IF s2.player.hp <= 0
            THEN emitAudio([s2 EXCEPT !.player.hp = 0, !.gameOver = TRUE], "game_over")
            ELSE s2])

\* resolveCircleTelegraphHit without a look at the invincibility timer
resolveCircleHitThroughInvincibility(s, telegraph) ==
    IF ~s.inp.inside THEN s
    ELSE applyTelegraphDamageToPlayer(s,
             Scale(telegraph.damage, randomRange(920, 1120, s.inp.u)), 650)

\* the three hit tests read the player's position against the telegraph's
\* geometry: the input inside says whether the player stands in it
resolveCircleTelegraphHit(s, telegraph) ==
    IF ~s.inp.inside \/ s.player.invincibleTimer > 0 THEN s
    ELSE applyTelegraphDamageToPlayer(s,
             Scale(telegraph.damage, randomRange(920, 1120, s.inp.u)), 650)

resolveConeTelegraphHit(s, telegraph) ==
    IF ~s.inp.inside \/ s.player.invincibleTimer > 0 THEN s
    ELSE applyTelegraphDamageToPlayer(s,
             Scale(telegraph.damage, randomRange(940, 1150, s.inp.u)), 620)

resolveLineTelegraphHit(s, telegraph) ==
    IF ~s.inp.inside \/ s.player.invincibleTimer > 0 THEN s
    ELSE applyTelegraphDamageToPlayer(s,
             Scale(telegraph.damage, randomRange(940, 1140, s.inp.u)), 600)

\* what the resolution of a telegraph did to the player: before it, after it
noteStrike(before, after, telegraph) ==
    [after EXCEPT !.obs.strikes = Append(@,
        [id |-> telegraph.id, kind |-> telegraph.kind, damage |-> telegraph.damage,
         inside |-> before.inp.inside, u |-> before.inp.u,
         armor |-> before.player.armor,
         hp |-> before.player.hp, combo |-> before.combo,
         invincible |-> before.player.invincibleTimer, gameOver |-> before.gameOver,
         hpAfter |-> after.player.hp, comboAfter |-> after.combo,
         invincibleAfter |-> after.player.invincibleTimer,
         gameOverAfter |-> after.gameOver])]

resolveBossTelegraph(s, telegraph) ==
    Let([s0 \in {[s EXCEPT !.obs.resolved = Append(@, telegraph.id),
                           !.obs.resolvedAll = Append(@, telegraph.id)]} |->
      noteStrike(s0,
        CASE telegraph.kind = "line" ->
               resolveLineTelegraphHit(
                   emitBurst(emitBurst([s0 EXCEPT !.ids = @ + 1, !.beams = Append(@, 200)],
                                       20 + s0.stageIndex * 2),
                             8),
                   telegraph)
          [] telegraph.kind = "cone" ->
               resolveConeTelegraphHit(
                   emitBurst(emitBurst([s0 EXCEPT !.ids = @ + 2, !.slashes = @ \o <<280, 240>>],
                                       16 + s0.stageIndex * 2),
                             8),
                   telegraph)
          [] OTHER ->
               resolveCircleTelegraphHit(
                   [emitBurst(emitBurst(s0, 16 + s0.stageIndex * 2), 8)
                       EXCEPT !.ids = @ + 1,
                              !.lightnings = Append(@, (LIGHTNING_LIFE * 12) \div 10)],
                   telegraph),
        telegraph)])

\* the for loop of updateBossTelegraphs over the telegraphs from index i on
RECURSIVE TelegraphLoop(_, _, _, _, _)
TelegraphLoop(s, list, i, pending, dt) ==
    IF i > Len(list) THEN [s EXCEPT !.bossTelegraphs = pending]
    ELSE LET telegraph == [list[i] EXCEPT !.life = @ - dt]
         IN  IF telegraph.life > 0
             THEN TelegraphLoop(s, list, i + 1, Append(pending, telegraph), dt)
             ELSE TelegraphLoop(resolveBossTelegraph(s, telegraph), list, i + 1, pending, dt)

\* this.state.monsters.find(m => m.id === bossId && m.hp > 0), as an index or 0
FindLivingBoss(s) ==
    IF s.bossId = 0 THEN 0
    ELSE LET hit == {i \in 1..Len(s.monsters) :
                        s.monsters[i].id = s.bossId /\ s.monsters[i].hp > 0}
         IN  IF hit = {} THEN 0 ELSE CHOOSE i \in hit : \A j \in hit : i <= j

\* the emission of updateBossTelegraphs without the new cooldown
emitTelegraphKeepingClock(s, boss) ==
    LET roll == s.inp.u
        idx == s.stageIndex
        useCone == idx >= 2 /\ roll < 34
        useLine == idx >= 1 /\ ~useCone /\ roll < 70
        kind == IF useCone THEN "cone" ELSE IF useLine THEN "line" ELSE "circle"
        life == IF useCone THEN 1020 ELSE IF useLine THEN 920 ELSE 1050
        factor == IF useCone THEN 1120 + idx * 100
                  ELSE IF useLine THEN 1020 + idx * 100 ELSE 1080 + idx * 120
        sound == IF useCone THEN "skill_blade"
                 ELSE IF useLine THEN "skill_laser" ELSE "skill_lightning"
    IN  emitAudio([s EXCEPT !.ids = nextId(s),
                            !.bossTelegraphs = Append(@, [id |-> nextId(s), kind |-> kind,
                                                          life |-> life,
                                                          damage |-> Scale(boss.damage,
                                                                           factor)]),
                            !.obs.emitted = Append(@, nextId(s)),
                            !.obs.casts = Append(@, [id |-> nextId(s), kind |-> kind,
                                                     stageIndex |-> idx,
                                                     boss |-> boss.id,
                                                     bossHp |-> boss.hp])],
                  sound)

emitTelegraph(s, boss) ==
    LET roll == s.inp.u
        idx == s.stageIndex
        useCone == idx >= 2 /\ roll < 34
        useLine == idx >= 1 /\ ~useCone /\ roll < 70
        kind == IF useCone THEN "cone" ELSE IF useLine THEN "line" ELSE "circle"
        life == IF useCone THEN 1020 ELSE IF useLine THEN 920 ELSE 1050
        factor == IF useCone THEN 1120 + idx * 100
                  ELSE IF useLine THEN 1020 + idx * 100 ELSE 1080 + idx * 120
        sound == IF useCone THEN "skill_blade"
                 ELSE IF useLine THEN "skill_laser" ELSE "skill_lightning"
    IN  [emitAudio([s EXCEPT !.ids = nextId(s),
                             !.bossTelegraphs = Append(@, [id |-> nextId(s), kind |-> kind,
                                                           life |-> life,
                                                           damage |-> Scale(boss.damage,
                                                                            factor)]),
                             !.obs.emitted = Append(@, nextId(s)),
                             !.obs.casts = Append(@, [id |-> nextId(s), kind |-> kind,
                                                      stageIndex |-> idx,
                                                      boss |-> boss.id,
                                                      bossHp |-> boss.hp])],
                   sound)
            EXCEPT !.bossAttackCooldown =
                Scale(Max(2100, 4200 - idx * 320), randomRange(900, 1200, roll))]

\* the boss's attack clock running for a boss that is in the monster set, alive
\* or not
bossAttackClockOfFallen(s, dt) ==
    LET hit == {i \in 1..Len(s.monsters) : s.monsters[i].id = s.bossId}
    IN  Let([b \in {IF s.bossId = 0 \/ hit = {} THEN 0
                    ELSE CHOOSE i \in hit : \A j \in hit : i <= j} |->
            IF b = 0 THEN s
            ELSE Let([a \in {[s EXCEPT !.bossAttackCooldown = @ - dt]} |->
                     IF a.bossAttackCooldown <= 0
                     THEN emitTelegraph(a, a.monsters[b]) ELSE a])])

\* the boss's attack clock of updateBossTelegraphs: it runs while the boss lives
bossAttackClock(s, dt) ==
    Let([b \in {FindLivingBoss(s)} |->
        IF b = 0 THEN s
        ELSE Let([a \in {[s EXCEPT !.bossAttackCooldown = @ - dt]} |->
                 IF a.bossAttackCooldown <= 0 THEN emitTelegraph(a, a.monsters[b]) ELSE a])])

\* updateBossTelegraphs with a loop that only ages the telegraphs
telegraphsOnlyAged(s, dt) ==
    [bossAttackClock(s, dt) EXCEPT
        !.bossTelegraphs = [i \in 1..Len(@) |-> [@[i] EXCEPT !.life = @ - dt]]]

updateBossTelegraphs(s, dt) ==
    Let([s1 \in {bossAttackClock(s, dt)} |->
        IF Len(s1.bossTelegraphs) <= 0 THEN s1
        ELSE TelegraphLoop(s1, s1.bossTelegraphs, 1, <<>>, dt)])

(* -------------------------------- combat -------------------------------- *)

\* Math.random() < chance, chance in thousandths
Chance(u, chance) == u * 10 < chance

\* indices of the monsters with hp > 0, in array order
Living(s) == SelectSeq([i \in 1..Len(s.monsters) |-> i], LAMBDA i : s.monsters[i].hp > 0)

damageMonster(s, i, amount, crit) ==
    [emitBurst(spawnDamageText([s EXCEPT !.monsters[i].hp = @ - amount,
                                         !.obs.monsterHits =
                                             Append(@, [id |-> s.monsters[i].id,
                                                        hpBefore |-> s.monsters[i].hp])]),
               IF crit THEN 6 ELSE 4)
        EXCEPT !.hitStopTimer =
            IF s.monsters[i].isBoss
            THEN Max(Max(@, IF crit THEN 28 ELSE 12), IF crit THEN 32 ELSE 18)
            ELSE Max(@, IF crit THEN 28 ELSE 12)]

performSlashProjectile(s) ==
    IF Living(s) = <<>> THEN [s |-> s, attacked |-> FALSE]
    ELSE [s |-> [s EXCEPT !.ids = @ + 2,
                          !.projectiles = Append(@,
                              [id |-> s.ids + 1, damage |-> s.player.damage, life |-> 450,
                               pierceLeft |-> 99, critChance |-> s.player.critChance,
                               kind |-> "slash", aoeRadius |-> 0, hits |-> 0,
                               budget |-> 99]),
                          !.slashes = Append(@, SLASH_LIFE)],
          attacked |-> TRUE]

\* arrow and magic_aoe differ in the projectile they fire
ShotVolley(s, kind, life, pierceLeft, aoeRadius) ==
    LET maxShots == Max(1, s.player.projectiles)
    IN  IF Living(s) = <<>> \/ ~s.inp.inRange THEN [s |-> s, attacked |-> FALSE]
        ELSE [s |-> [s EXCEPT !.ids = @ + maxShots,
                              !.projectiles = @ \o [k \in 1..maxShots |->
                                  [id |-> s.ids + k, damage |-> s.player.damage,
                                   life |-> life, pierceLeft |-> pierceLeft,
                                   critChance |-> s.player.critChance, kind |-> kind,
                                   aoeRadius |-> aoeRadius, hits |-> 0,
                                   budget |-> pierceLeft]]],
              attacked |-> TRUE]

performArrowAttack(s) == ShotVolley(s, "arrow", 1000, s.player.pierce, 0)

performMagicAoeAttack(s) == ShotVolley(s, "magic", PROJECTILE_LIFE, 0, 65)

updateAttacks(s, dt) ==
    Let([s1 \in {[s EXCEPT !.player.attackCooldown = @ - dt]} |->
        IF s1.player.attackCooldown > 0 THEN s1
        ELSE IF Len(s1.monsters) = 0 THEN [s1 EXCEPT !.player.attackCooldown = 60]
        ELSE Let([r \in {CASE attackStyle(s1) = "slash_projectile" ->
                                 performSlashProjectile(s1)
                           [] attackStyle(s1) = "arrow" -> performArrowAttack(s1)
                           [] OTHER -> performMagicAoeAttack(s1)} |->
                 IF ~r.attacked THEN [r.s EXCEPT !.player.attackCooldown = 80]
                 ELSE [emitAudio(r.s, "player_attack")
                          EXCEPT !.player.attackCooldown = @ + r.s.player.attackInterval]])])

\* damage every monster of targets (indices) from position k on, amount(crit)
RECURSIVE SkillHits(_, _, _, _, _, _)
SkillHits(s, targets, k, base, critFactor, crit) ==
    IF k > Len(targets) THEN s
    ELSE SkillHits(damageMonster(s, targets[k],
                                 IF crit THEN Scale(base, critFactor) ELSE base, crit),
                   targets, k + 1, base, critFactor, crit)

\* the living monsters a blade, a beam or a projectile overlaps this tick
Struck(s) == SelectSeq(Living(s), LAMBDA i : i \in s.inp.struck)

updateBladeSkill(s, dt) ==
    LET level == s.skills.blade
    IN  IF level <= 0 THEN s
        ELSE IF s.bladeTickCooldown - dt > 0 THEN [s EXCEPT !.bladeTickCooldown = @ - dt]
        ELSE LET baseDamage == Scale(s.player.damage, 520 + level * 200)
                 crit == Chance(s.inp.u, (s.player.critChance * 45) \div 100)
             IN  Let([targets \in {Struck(s)} |->
                 Let([s3 \in {SkillHits([s EXCEPT !.bladeTickCooldown =
                                                     Max(80, 240 - level * 18)],
                                        targets, 1,
                                        Scale(baseDamage, randomRange(900, 1080, s.inp.u)),
                                        1700, crit)} |->
                     IF targets # <<>>
                     THEN emitAudio([s3 EXCEPT !.hitStopTimer = Max(@, 16)], "skill_blade")
                     ELSE s3])])

RECURSIVE LightningHits(_, _, _)
LightningHits(s, targets, k) ==
    IF k > Len(targets) THEN s
    ELSE LET level == s.skills.lightning
             crit == Chance(s.inp.u, (s.player.critChance * 60) \div 100)
             base == Scale(Scale(s.player.damage, 1350 + level * 480),
                           randomRange(900, 1150, s.inp.u))
         IN  LightningHits(
                 [emitBurst(
                      emitBurst([damageMonster(s, targets[k],
                                               IF crit THEN Scale(base, 1650) ELSE base, crit)
                                    EXCEPT !.ids = @ + 1,
                                           !.lightnings = Append(@, LIGHTNING_LIFE)],
                                12),
                      8)
                     EXCEPT !.hitStopTimer = Max(@, 22)],
                 targets, k + 1)

castLightning(s) ==
    IF Len(s.monsters) = 0 THEN s
    ELSE LET level == s.skills.lightning
             targetCount == 1 + (level + 1) \div 2
         IN  Let([living \in {Living(s)} |->
             Let([nearestPool \in {SubSeq(living, 1,
                                          Min(Len(living), Max(3, targetCount * 2)))} |->
                 IF nearestPool = <<>> THEN s
                 ELSE emitAudio(
                          LightningHits(s, pickRandomUnique(nearestPool,
                                               Min(targetCount, Len(nearestPool)),
                                               s.inp.seed), 1),
                          "skill_lightning")])])

castLaser(s) ==
    LET level == s.skills.laser
    IN  IF level <= 0 \/ Len(s.monsters) = 0 \/ Living(s) = <<>> THEN s
        ELSE LET baseDamage == Scale(s.player.damage, 2900 + level * 1150)
                 crit == Chance(s.inp.u, (s.player.critChance * 35) \div 100)
             IN  emitAudio(
                     [emitBurst(
                          emitBurst([SkillHits(s, Struck(s), 1,
                                               Scale(baseDamage,
                                                     randomRange(930, 1080, s.inp.u)),
                                               1600, crit)
                                        EXCEPT !.ids = @ + 1, !.beams = Append(@, BEAM_LIFE)],
                                    18),
                          10)
                         EXCEPT !.hitStopTimer = Max(@, 30)],
                     "skill_laser")

\* the lightning part of updateSkills
updateLightningSkill(s, dt) ==
    Let([s2 \in {[s EXCEPT !.lightningCooldown = @ - dt]} |->
        IF s2.skills.lightning > 0 /\ s2.lightningCooldown <= 0
        THEN [castLightning(s2) EXCEPT !.lightningCooldown =
                  Max(700, 3250 - s2.skills.lightning * 380)]
        ELSE s2])

\* the laser part of updateSkills
updateLaserSkill(s, dt) ==
    Let([s4 \in {[s EXCEPT !.laserCooldown = @ - dt]} |->
        IF s4.skills.laser > 0 /\ s4.laserCooldown <= 0
        THEN [castLaser(s4) EXCEPT !.laserCooldown = Max(950, 4100 - s4.skills.laser * 420)]
        ELSE s4])

updateSkills(s, dt) ==
    updateLaserSkill(updateLightningSkill(updateBladeSkill(s, dt), dt), dt)

(* ---------------------- projectiles, monsters, gems --------------------- *)

\* a projectile's hit on the monster at index m, direct or by its explosion:
\* the monster's hp at the moment of the hit
noteShot(s, projectile, m, aoe) ==
    [s EXCEPT !.obs.shots = Append(@, [id |-> projectile.id, monster |-> s.monsters[m].id,
                                       hpBefore |-> s.monsters[m].hp, aoe |-> aoe])]

\* the explosion of a magic projectile that hit monster m: every other monster
\* of livingMonsters inside the blast radius
\* (the loops over the monsters visit, in array order, the monsters the tick's
\* geometry puts in reach; the others are the iterations that continue)
RECURSIVE AoeLoop(_, _, _, _, _)
AoeLoop(s, projectile, inBlast, m, k) ==
    IF k > Len(inBlast) THEN s
    ELSE LET other == inBlast[k]
         IN  IF other = m
             THEN AoeLoop(s, projectile, inBlast, m, k + 1)
             ELSE LET aoeCrit == Chance(s.inp.u, projectile.critChance \div 2)
                      base == Scale((projectile.damage * 6) \div 10,
                                    randomRange(850, 1100, s.inp.u))
                      aoeDmg == IF aoeCrit THEN Scale(base, 1600) ELSE base
                  IN  AoeLoop(damageMonster(noteShot(s, projectile, other, TRUE),
                                            other, aoeDmg, aoeCrit),
                              projectile, inBlast, m, k + 1)

\* what a projectile's hit on monster m sets off: a magic projectile explodes
explode(s, projectile, inBlast, m) ==
    IF projectile.kind = "magic" /\ projectile.aoeRadius > 0
    THEN emitBurst(
             emitBurst([AoeLoop(s, projectile, inBlast, m, 1)
                           EXCEPT !.ids = @ + 1,
                                  !.lightnings = Append(@, (LIGHTNING_LIFE * 11) \div 10)],
                       14),
             6)
    ELSE s

\* the inner for loop of updateProjectiles when a hit with no budget left does
\* not end the projectile
RECURSIVE HitLoopUnbudgeted(_, _, _, _)
HitLoopUnbudgeted(s, projectile, inPath, k) ==
    IF k > Len(inPath)
    THEN [s |-> s, projectile |-> projectile, destroyed |-> FALSE]
    ELSE LET m == inPath[k]
             crit == Chance(s.inp.u, projectile.critChance)
             base == Scale(projectile.damage, randomRange(900, 1140, s.inp.u))
             damage == IF crit THEN Scale(base, 1800) ELSE base
             hit == [projectile EXCEPT !.hits = @ + 1]
         IN  Let([s2 \in {explode(damageMonster(noteShot(s, projectile, m, FALSE),
                                                m, damage, crit),
                                  projectile, inPath, m)} |->
                 HitLoopUnbudgeted(s2, [hit EXCEPT !.pierceLeft = @ - 1], inPath, k + 1)])

\* the inner for loop of updateProjectiles: one projectile against the monsters
\* of livingMonsters it overlaps (inPath)
RECURSIVE HitLoop(_, _, _, _)
HitLoop(s, projectile, inPath, k) ==
    IF k > Len(inPath)
    THEN [s |-> s, projectile |-> projectile, destroyed |-> FALSE]
    ELSE LET m == inPath[k]
             crit == Chance(s.inp.u, projectile.critChance)
             base == Scale(projectile.damage, randomRange(900, 1140, s.inp.u))
             damage == IF crit THEN Scale(base, 1800) ELSE base
             hit == [projectile EXCEPT !.hits = @ + 1]
         IN  Let([s2 \in {explode(damageMonster(noteShot(s, projectile, m, FALSE),
                                                m, damage, crit),
                                  projectile, inPath, m)} |->
                 IF projectile.pierceLeft <= 0
                 THEN [s |-> s2, projectile |-> hit, destroyed |-> TRUE]
                 ELSE HitLoop(s2, [hit EXCEPT !.pierceLeft = @ - 1], inPath, k + 1)])

\* what a tick did with a projectile: its life after the tick's dt, the
\* monsters it damaged in the tick, its pierce budget before and after
\* (hits and budget: the hits of its lifetime, the pierceLeft it was created with)
noteFlight(s, projectile, after, destroyed) ==
    [s EXCEPT !.obs.flown = Append(@, [id |-> projectile.id, life |-> projectile.life,
                                       hits |-> after.hits - projectile.hits,
                                       total |-> after.hits,
                                       budget |-> projectile.budget,
                                       pierceLeft |-> projectile.pierceLeft,
                                       pierceLeftAfter |-> after.pierceLeft,
                                       destroyed |-> destroyed])]

\* the for loop of updateProjectiles without the test of the projectile's life
RECURSIVE ProjectileLoopPastLife(_, _, _, _, _, _)
ProjectileLoopPastLife(s, list, i, remaining, inPath, dt) ==
    IF i > Len(list) THEN [s EXCEPT !.projectiles = remaining]
    ELSE LET projectile == [list[i] EXCEPT !.life = @ - dt]
         IN  Let([r \in {HitLoop(s, projectile, inPath, 1)} |->
                 ProjectileLoopPastLife(
                     noteFlight(r.s, projectile, r.projectile, r.destroyed),
                     list, i + 1,
                     IF r.destroyed THEN remaining ELSE Append(remaining, r.projectile),
                     inPath, dt)])

\* the for loop of updateProjectiles over the projectiles from index i on
RECURSIVE ProjectileLoop(_, _, _, _, _, _)
ProjectileLoop(s, list, i, remaining, inPath, dt) ==
    IF i > Len(list) THEN [s EXCEPT !.projectiles = remaining]
    ELSE LET projectile == [list[i] EXCEPT !.life = @ - dt]
         IN  IF projectile.life <= 0
             THEN ProjectileLoop(noteFlight(s, projectile, projectile, FALSE), list, i + 1, remaining,
                                 inPath, dt)
             ELSE Let([r \in {HitLoop(s, projectile, inPath, 1)} |->
                      ProjectileLoop(
                          noteFlight(r.s, projectile, r.projectile, r.destroyed),
                          list, i + 1,
                          IF r.destroyed THEN remaining
                          ELSE Append(remaining, r.projectile),
                          inPath, dt)])

\* livingMonsters is filtered once, before the loops
updateProjectiles(s, dt) ==
    ProjectileLoop(s, s.projectiles, 1, <<>>, Struck(s), dt)

\* the contact damage leaving the combo as it was
contactDamageKeepingCombo(s, i) ==
    LET incoming == Scale(s.monsters[i].damage, randomRange(900, 1080, s.inp.u))
        reduced == Scale(incoming, 1000 - s.player.armor)
    IN  Let([s2 \in {emitBurst(
                         spawnDamageText(
                             emitAudio([s EXCEPT !.player.hp = @ - reduced,
                                                 !.player.invincibleTimer = InvincibleTime,
                                                 !.hitStopTimer = Max(@, 18),
                                                 !.obs.hits = @ + 1,
                                                 !.obs.taken = @ + reduced,
                                                 !.obs.contacts = Append(@,
                                                     [id |-> s.monsters[i].id,
                                                      invincible |->
                                                          s.player.invincibleTimer])],
                                       "player_hit")),
                         8)} |->
            IF s2.player.hp <= 0
            THEN emitAudio([s2 EXCEPT !.player.hp = 0, !.gameOver = TRUE], "game_over")
            ELSE s2])

\* the body of the for loop of updateMonsters for a monster that overlaps the player
contactDamage(s, i) ==
    LET incoming == Scale(s.monsters[i].damage, randomRange(900, 1080, s.inp.u))
        reduced == Scale(incoming, 1000 - s.player.armor)
    IN  Let([s2 \in {emitBurst(
                         spawnDamageText(
                             emitAudio([s EXCEPT !.player.hp = @ - reduced,
                                                 !.player.invincibleTimer = InvincibleTime,
                                                 !.combo = 0,
                                                 !.hitStopTimer = Max(@, 18),
                                                 !.obs.hits = @ + 1,
                                                 !.obs.taken = @ + reduced,
                                                 !.obs.contacts = Append(@,
                                                     [id |-> s.monsters[i].id,
                                                      invincible |->
                                                          s.player.invincibleTimer])],
                                       "player_hit")),
                         8)} |->
            IF s2.player.hp <= 0
            THEN emitAudio([s2 EXCEPT !.player.hp = 0, !.gameOver = TRUE], "game_over")
            ELSE s2])

\* the for loop of updateMonsters without the test of the invincibility timer
RECURSIVE MonsterLoopThroughInvincibility(_, _, _)
MonsterLoopThroughInvincibility(s, touching, k) ==
    IF k > Len(touching) THEN s
    ELSE IF s.monsters[touching[k]].hp <= 0
         THEN MonsterLoopThroughInvincibility(s, touching, k + 1)
         ELSE MonsterLoopThroughInvincibility(contactDamage(s, touching[k]), touching, k + 1)

\* the for loop of updateMonsters over the monsters that overlap the player
RECURSIVE MonsterLoop(_, _, _)
MonsterLoop(s, touching, k) ==
    IF k > Len(touching) THEN s
    ELSE IF \/ s.monsters[touching[k]].hp <= 0
            \/ s.player.invincibleTimer > 0
         THEN MonsterLoop(s, touching, k + 1)
         ELSE MonsterLoop(contactDamage(s, touching[k]), touching, k + 1)

\* touched: the living monsters that overlap the player in this tick
updateMonsters(s, dt) ==
    Let([touching \in {SelectSeq([i \in 1..Len(s.monsters) |-> i],
                                 LAMBDA i : i \in s.inp.touch)} |->
        MonsterLoop([s EXCEPT !.obs.touched =
                         Len(SelectSeq(touching, LAMBDA i : s.monsters[i].hp > 0))],
                    touching, 1)])

\* the for loop of updateGems over the gems the player picks up (indices)
RECURSIVE GemLoop(_, _, _, _)
GemLoop(s, list, picked, k) ==
    IF k > Len(picked) THEN s
    ELSE GemLoop(emitBurst(gainExp(s, list[picked[k]]), 4), list, picked, k + 1)

updateGems(s, dt) ==
    LET places == [i \in 1..Len(s.gems) |-> i]
    IN  Let([left \in {SelectSeq(places, LAMBDA i : i \notin s.inp.collect)} |->
            [GemLoop(s, s.gems, SelectSeq(places, LAMBDA i : i \in s.inp.collect), 1)
                EXCEPT !.gems = [j \in 1..Len(left) |-> s.gems[left[j]]]]])

collectAllStageGems(s) ==
    IF Len(s.gems) <= 0 THEN s
    ELSE LET totalExp == SumSeq(s.gems)
         IN  emitBurst(gainExp([s EXCEPT !.gems = <<>>], totalExp), 22)

\* a dead monster is counted: kills, combo, bestCombo
countKill(s, monster) ==
    [s EXCEPT !.kills = @ + 1,
              !.combo = @ + 1,
              !.bestCombo = Max(@, s.combo + 1),
              !.obs.killed = Append(@, monster.id),
              !.obs.fallen = Append(@, [id |-> monster.id, hp |-> monster.hp,
                                        isBoss |-> monster.isBoss,
                                        expValue |-> monster.expValue])]

\* the boss's death leaving its id in bossId
bossDeathKeepingId(s) ==
    emitAudio(emitBurst([s EXCEPT !.bossTelegraphs = <<>>,
                                  !.obs.bossDefeated = TRUE], 38),
              "boss_die")

\* the dead monster is the boss
bossDeath(s) ==
    emitAudio(emitBurst([s EXCEPT !.bossId = 0,
                                  !.bossTelegraphs = <<>>,
                                  !.obs.bossDefeated = TRUE], 38),
              "boss_die")

\* the dead monster is a regular one: its exp becomes a gem, or at the cap is
\* added to a gem picked at random
\* dropGem without the cap: every dead monster leaves a gem of its own
dropGemUncapped(s, monster) ==
    [s EXCEPT !.ids = nextId(s),
              !.gems = Append(@, monster.expValue)]

dropGem(s, monster) ==
    LET idx == ((s.inp.u * Len(s.gems)) \div 100) + 1
    IN  IF Len(s.gems) >= MAX_GEMS
        THEN [s EXCEPT !.gems[idx] = @ + monster.expValue]
        ELSE [s EXCEPT !.ids = nextId(s),
                       !.gems = Append(@, monster.expValue)]

\* what the drop of a dead monster's exp did to the gems: before it, after it
noteDrop(before, after, monster) ==
    [after EXCEPT
        !.obs.dropped = @ + monster.expValue,
        !.obs.drops = Append(@,
            [value |-> monster.expValue,
             lenBefore |-> Len(before.gems), lenAfter |-> Len(after.gems),
             sumBefore |-> SumSeq(before.gems), sumAfter |-> SumSeq(after.gems),
             changed |-> Cardinality({i \in 1..Min(Len(before.gems), Len(after.gems)) :
                                         before.gems[i] # after.gems[i]})])]

\* countKill and dropGem for a dead regular monster
regularDeath(s, monster) ==
    Let([counted \in {countKill(s, monster)} |->
        noteDrop(counted, dropGem(counted, monster), monster)])

\* the for loop of processDeathsAndProgression over the dead monsters (list);
\* the others are its survivors
RECURSIVE DeathLoop(_, _, _, _, _, _)
DeathLoop(s, list, i, survivors, bossDefeated, regularKilled) ==
    IF i > Len(list)
    THEN [s |-> [s EXCEPT !.monsters = survivors],
          bossDefeated |-> bossDefeated, regularKilled |-> regularKilled]
    ELSE LET monster == list[i]
         IN  IF monster.isBoss
             THEN DeathLoop(bossDeath(countKill(s, monster)), list, i + 1, survivors,
                            TRUE, regularKilled)
             ELSE DeathLoop(regularDeath(s, monster), list, i + 1, survivors,
                            bossDefeated, regularKilled + 1)

\* the end of processDeathsAndProgression leaving the gems on the ground at a
\* stage clear
stageClearWithoutVacuum(s) ==
    IF s.stageIndex >= Len(STAGES) - 1
    THEN emitAudio([collectAllStageGems(s) EXCEPT !.victory = TRUE], "victory")
    ELSE emitAudio([s EXCEPT !.stageClearReady = TRUE,
                             !.stageClearDelay = StageClearGrace,
                             !.bossSpawned = TRUE,
                             !.bossTelegraphs = <<>>,
                             !.monsters = <<>>,
                             !.projectiles = <<>>,
                             !.combo = 0],
                   "stage_clear")

\* the end of processDeathsAndProgression taking the last stage for one more
\* stage to clear
lastStageCleared(s) ==
    emitAudio([collectAllStageGems(s) EXCEPT !.stageClearReady = TRUE,
                                             !.stageClearDelay = StageClearGrace,
                                             !.bossSpawned = TRUE,
                                             !.bossTelegraphs = <<>>,
                                             !.monsters = <<>>,
                                             !.projectiles = <<>>,
                                             !.combo = 0],
              "stage_clear")

\* the end of processDeathsAndProgression, when the boss died in this tick
bossDefeatedProgression(s) ==
    IF s.stageIndex >= Len(STAGES) - 1
    THEN emitAudio([collectAllStageGems(s) EXCEPT !.victory = TRUE], "victory")
    ELSE emitAudio([collectAllStageGems(s) EXCEPT !.stageClearReady = TRUE,
                                                  !.stageClearDelay = StageClearGrace,
                                                  !.bossSpawned = TRUE,
                                                  !.bossTelegraphs = <<>>,
                                                  !.monsters = <<>>,
                                                  !.projectiles = <<>>,
                                                  !.combo = 0],
                   "stage_clear")

\* processDeathsAndProgression with every monster among the survivors
processDeathsKeepingFallen(s) ==
    Let([r \in {DeathLoop(s, SelectSeq(s.monsters, LAMBDA m : m.hp <= 0), 1,
                          s.monsters, FALSE, 0)} |->
    Let([s1 \in {IF r.regularKilled > 0 THEN emitAudio(r.s, "monster_die") ELSE r.s} |->
        IF ~r.bossDefeated THEN s1 ELSE bossDefeatedProgression(s1)])])

processDeathsAndProgression(s) ==
    Let([r \in {DeathLoop(s, SelectSeq(s.monsters, LAMBDA m : m.hp <= 0), 1,
                          SelectSeq(s.monsters, LAMBDA m : m.hp > 0), FALSE, 0)} |->
    Let([s1 \in {IF r.regularKilled > 0 THEN emitAudio(r.s, "monster_die") ELSE r.s} |->
        IF ~r.bossDefeated THEN s1 ELSE bossDefeatedProgression(s1)])])

(* --------------------------- visuals, the tick --------------------------- *)

Decay(lives, dt) == SelectSeq([i \in 1..Len(lives) |-> lives[i] - dt], LAMBDA l : l > 0)

updateVisuals(s, dt) ==
    [s EXCEPT !.particles = SelectSeq([i \in 1..Len(@) |-> [@[i] EXCEPT !.life = @ - dt]],
                                      LAMBDA g : g.life > 0),
              !.damageTexts = SelectSeq([i \in 1..Len(@) |-> [@[i] EXCEPT !.life = @ - dt]],
                                        LAMBDA x : x.life > 0),
              !.slashes = Decay(@, dt),
              !.beams = Decay(@, dt),
              !.lightnings = Decay(@, dt)]

\* the nine sub-updates of a gameplay tick
gameplayTick(s, dt) ==
    updateVisuals(
    processDeathsAndProgression(
    updateGems(
    updateMonsters(
    updateProjectiles(
    updateBossTelegraphs(
    updateSkills(
    updateAttacks(
    updateStage(
    updatePlayer([s EXCEPT !.obs.fullTick = TRUE, !.obs.ticks = @ + 1],
    dt), dt), dt), dt), dt), dt), dt), dt)), dt)

\* update without its hit-stop branch
updateThroughHitStop(s, deltaSeconds) ==
    LET dt == clamp(deltaSeconds, 0, MaxDt)
    IN  IF dt <= 0 THEN s
        ELSE IF s.paused THEN s
        ELSE IF s.gameOver \/ s.victory THEN updateVisuals(s, dt)
        ELSE IF s.awaitingUpgrade THEN updateVisuals(s, dt)
        ELSE IF s.stageClearReady THEN updateVisuals(updateStageClearTransition(s, dt), dt)
        ELSE gameplayTick(s, dt)

\* update without its upgrade-gate branch
updateThroughGate(s, deltaSeconds) ==
    LET dt == clamp(deltaSeconds, 0, MaxDt)
    IN  IF dt <= 0 THEN s
        ELSE IF s.paused THEN s
        ELSE IF s.hitStopTimer > 0
        THEN updateVisuals([s EXCEPT !.hitStopTimer = Max(0, @ - dt)], (dt * 45) \div 100)
        ELSE IF s.gameOver \/ s.victory THEN updateVisuals(s, dt)
        ELSE IF s.stageClearReady THEN updateVisuals(updateStageClearTransition(s, dt), dt)
        ELSE gameplayTick(s, dt)

\* update without its pause branch
updateThroughPause(s, deltaSeconds) ==
    LET dt == clamp(deltaSeconds, 0, MaxDt)
    IN  IF dt <= 0 THEN s
        ELSE IF s.hitStopTimer > 0
        THEN updateVisuals([s EXCEPT !.hitStopTimer = Max(0, @ - dt)], (dt * 45) \div 100)
        ELSE IF s.gameOver \/ s.victory THEN updateVisuals(s, dt)
        ELSE IF s.awaitingUpgrade THEN updateVisuals(s, dt)
        ELSE IF s.stageClearReady THEN updateVisuals(updateStageClearTransition(s, dt), dt)
        ELSE gameplayTick(s, dt)

\* the camera is not modelled: updateCamera is the identity on this state
update(s, deltaSeconds) ==
    LET dt == clamp(deltaSeconds, 0, MaxDt)
    IN  IF dt <= 0 THEN s
        ELSE IF s.paused THEN s
        ELSE IF s.hitStopTimer > 0
        THEN updateVisuals([s EXCEPT !.hitStopTimer = Max(0, @ - dt)], (dt * 45) \div 100)
        ELSE IF s.gameOver \/ s.victory THEN updateVisuals(s, dt)
        ELSE IF s.awaitingUpgrade THEN updateVisuals(s, dt)
        ELSE IF s.stageClearReady THEN updateVisuals(updateStageClearTransition(s, dt), dt)
        ELSE gameplayTick(s, dt)

\* togglePause without canTogglePause
togglePauseUngated(s) == [s EXCEPT !.paused = ~@, !.obs.ret = ~s.paused]

togglePause(s) ==
    IF s.gameOver \/ s.victory \/ s.awaitingUpgrade \/ s.stageClearReady
    THEN [s EXCEPT !.obs.ret = s.paused]
    ELSE [s EXCEPT !.paused = ~@, !.obs.ret = ~s.paused]

\* consumeAudioEvents handing the queue out without replacing it
consumeAudioEventsKept(s) ==
    [s EXCEPT !.obs.drained = s.audioEvents,
              !.obs.delivered = @ \o [i \in 1..Len(s.audioEvents) |-> s.audioEvents[i].id]]

consumeAudioEvents(s) ==
    IF Len(s.audioEvents) <= 0 THEN [s EXCEPT !.obs.drained = <<>>]
    ELSE [s EXCEPT !.audioEvents = <<>>,
                   !.obs.drained = s.audioEvents,
                   !.obs.delivered = @ \o [i \in 1..Len(s.audioEvents) |-> s.audioEvents[i].id]]

\* null, for a name
NoName == ""

\* monsters.find(monster => monster.id === bossId), as an index or 0
FindBoss(s) ==
    IF s.bossId = 0 THEN 0
    ELSE LET hit == {i \in 1..Len(s.monsters) : s.monsters[i].id = s.bossId}
         IN  IF hit = {} THEN 0 ELSE CHOOSE i \in hit : \A j \in hit : i <= j

\* the fields of the snapshot that are computed; the others are copies of the
\* state's fields
getSnapshot(s) ==
    LET boss == FindBoss(s)
    IN  [bossActive |-> boss # 0,
         bossName |-> IF boss # 0 THEN currentStage(s).boss.name ELSE NoName,
         bossHp |-> IF boss # 0 THEN s.monsters[boss].hp ELSE 0,
         stageAutoAdvanceLeft |-> IF s.stageClearReady THEN Max(0, s.stageClearDelay)
                                  ELSE 0,
         nextStageIndex |-> IF s.stageClearReady THEN s.stageIndex + 1 ELSE -1]

(* ------------------------------ the states ------------------------------ *)

\* createInitialState with the first stage's base spawn interval on the spawn timer
createInitialStateBaseInterval(characterId) ==
    LET config == CHARACTER_CONFIGS[characterId]
    IN  [characterId |-> characterId,
         ids |-> 1,
         player |-> [hp |-> config.maxHp, maxHp |-> config.maxHp, speed |-> config.speed,
                     damage |-> config.damage, attackInterval |-> config.attackInterval,
                     attackCooldown |-> 0, range |-> config.range,
                     projectiles |-> config.projectiles, critChance |-> config.critChance,
                     armor |-> config.armor, magnetRadius |-> 115, pierce |-> 0,
                     exp |-> 0, expToNext |-> InitialExpToNext, level |-> 1,
                     invincibleTimer |-> 0],
         monsters |-> <<>>, projectiles |-> <<>>, gems |-> <<>>, particles |-> <<>>,
         damageTexts |-> <<>>, slashes |-> <<>>, beams |-> <<>>, lightnings |-> <<>>,
         bossTelegraphs |-> <<>>,
         stageIndex |-> 0, stageTimeLeft |-> STAGES[1].duration,
         bossSpawned |-> FALSE, bossId |-> 0, spawnTimer |-> STAGES[1].spawnBaseInterval,
         kills |-> 0, combo |-> 0, bestCombo |-> 0,
         awaitingUpgrade |-> FALSE, upgradeChoices |-> <<>>, pendingLevelUps |-> 0,
         paused |-> FALSE, stageClearReady |-> FALSE, stageClearDelay |-> 0,
         gameOver |-> FALSE, victory |-> FALSE,
         skills |-> [lightning |-> 0, blade |-> 0, laser |-> 0],
         lightningCooldown |-> 1800, laserCooldown |-> 2800, bladeTickCooldown |-> 0,
         bossAttackCooldown |-> 3600, hitStopTimer |-> 0,
         audioEvents |-> <<>>]

createInitialState(characterId) ==
    LET config == CHARACTER_CONFIGS[characterId]
    IN  [characterId |-> characterId,
         ids |-> 1,
         player |-> [hp |-> config.maxHp, maxHp |-> config.maxHp, speed |-> config.speed,
                     damage |-> config.damage, attackInterval |-> config.attackInterval,
                     attackCooldown |-> 0, range |-> config.range,
                     projectiles |-> config.projectiles, critChance |-> config.critChance,
                     armor |-> config.armor, magnetRadius |-> 115, pierce |-> 0,
                     exp |-> 0, expToNext |-> InitialExpToNext, level |-> 1,
                     invincibleTimer |-> 0],
         monsters |-> <<>>, projectiles |-> <<>>, gems |-> <<>>, particles |-> <<>>,
         damageTexts |-> <<>>, slashes |-> <<>>, beams |-> <<>>, lightnings |-> <<>>,
         bossTelegraphs |-> <<>>,
         stageIndex |-> 0, stageTimeLeft |-> STAGES[1].duration,
         bossSpawned |-> FALSE, bossId |-> 0, spawnTimer |-> 650,
         kills |-> 0, combo |-> 0, bestCombo |-> 0,
         awaitingUpgrade |-> FALSE, upgradeChoices |-> <<>>, pendingLevelUps |-> 0,
         paused |-> FALSE, stageClearReady |-> FALSE, stageClearDelay |-> 0,
         gameOver |-> FALSE, victory |-> FALSE,
         skills |-> [lightning |-> 0, blade |-> 0, laser |-> 0],
         lightningCooldown |-> 1800, laserCooldown |-> 2800, bladeTickCooldown |-> 0,
         bossAttackCooldown |-> 3600, hitStopTimer |-> 0,
         audioEvents |-> <<>>]

\* what a call has done so far; n, ticks, resolvedAll and delivered run over the
\* session
NewCall(op, arg, before) ==
    [op |-> op, arg |-> arg, ret |-> FALSE, drained |-> <<>>, fullTick |-> FALSE,
     gains |-> <<>>, levels |-> 0, applied |-> FALSE, advanced |-> FALSE,
     resolved |-> <<>>, emitted |-> <<>>, hits |-> 0, taken |-> 0,
     bossDefeated |-> FALSE, killed |-> <<>>, dropped |-> 0, drops |-> <<>>,
     spawned |-> 0, bossSpawns |-> 0, monsterHits |-> <<>>, strikes |-> <<>>,
     flown |-> <<>>, bursts |-> <<>>, texts |-> <<>>, casts |-> <<>>,
     contacts |-> <<>>, touched |-> 0, shots |-> <<>>, offered |-> <<>>,
     fallen |-> <<>>,
     n |-> before.n + 1, ticks |-> before.ticks, resolvedAll |-> before.resolvedAll,
     delivered |-> before.delivered]

NoCall == NewCall("new", 0, [n |-> -1, ticks |-> 0, resolvedAll |-> <<>>,
                             delivered |-> <<>>])

NoInput == [u |-> 0, seed |-> 0, touch |-> {}, struck |-> {}, collect |-> {},
            inside |-> FALSE, inRange |-> TRUE]

\* the state a call works on: RuntimeState, the call's inputs and its record
\* (offered: the choices on the table when applyUpgrade is called)
Begin(op, arg, inp) ==
    state @@ [inp |-> inp,
              obs |-> [NewCall(op, arg, call) EXCEPT
                          !.offered = IF op = "applyUpgrade" THEN state.upgradeChoices
                                      ELSE @]]

Program(c) == [f \in DOMAIN state |-> c[f]]

(* ------------------------------ the bounds ------------------------------ *)

\* public calls explored from an initial state
MaxCalls == 3

\* places in the monster array near enough to touch the player or to be hit
NearMonsters == {1, 2}

\* places in the gem array near enough to be picked up
NearGems == {1}

\* Math.random(), in hundredths
Rolls == {0, 50, 99}

\* deltaSeconds, in milliseconds: a call without time, a frame above the clamp
DeltaSeconds == {0, 80}

(* --------------------------- sessions under way -------------------------- *)

\* A boss fight on stage k, some way into a session: the stage timer has run
\* out, the boss (id 12) and one monster of the stage's pool (id 11) are near
\* the player, both wounded, a shot of the character's attack is in flight, a gem
\* lies at the player's feet and the player is 8 exp short of the next level.
\* With pending a circle telegraph is about to resolve; without, the boss is
\* about to attack.
BossFight(characterId, k, hp, pending) ==
    LET fresh == createInitialState(characterId)
        stage == STAGES[k + 1]
        kind == stage.monsterPool[1]
        stageFactor == 1000 + k * 230
        style == CHARACTER_CONFIGS[characterId].attackStyle
        shot == [id |-> 20, damage |-> fresh.player.damage,
                 life |-> IF style = "slash_projectile" THEN 300 ELSE 700,
                 pierceLeft |-> IF style = "slash_projectile" THEN 98 ELSE 0,
                 critChance |-> fresh.player.critChance,
                 kind |-> IF style = "slash_projectile" THEN "slash"
                          ELSE IF style = "arrow" THEN "arrow" ELSE "magic",
                 aoeRadius |-> IF style = "magic_aoe" THEN 65 ELSE 0,
                 hits |-> IF style = "slash_projectile" THEN 1 ELSE 0,
                 budget |-> IF style = "slash_projectile" THEN 99 ELSE 0]
    IN  [fresh EXCEPT
            !.ids = 40,
            !.stageIndex = k,
            !.stageTimeLeft = 0,
            !.bossSpawned = TRUE,
            !.bossId = 12,
            !.spawnTimer = -4000,
            !.monsters = << [id |-> 11, kind |-> kind, hp |-> 9000,
                             damage |-> Scale(MONSTER_CONFIGS[kind].damage, stageFactor),
                             expValue |-> MONSTER_CONFIGS[kind].exp, isBoss |-> FALSE],
                            [id |-> 12, kind |-> "boss", hp |-> 15000,
                             damage |-> stage.boss.damage,
                             expValue |-> BossExpValue, isBoss |-> TRUE] >>,
            !.projectiles = << shot >>,
            !.gems = IF pending THEN << 8 >> ELSE <<>>,
            !.bossTelegraphs = IF pending
                               THEN << [id |-> 30, kind |-> "circle", life |-> 40,
                                        damage |-> Scale(stage.boss.damage, 1080 + k * 120)] >>
                               ELSE <<>>,
            !.bossAttackCooldown = IF pending THEN 1500 ELSE 30,
            !.lightningCooldown = -9000,
            !.laserCooldown = -8000,
            !.player.hp = hp,
            !.player.exp = 27,
            !.player.attackCooldown = IF pending THEN 200 ELSE 40,
            !.kills = 6, !.combo = 2, !.bestCombo = 4]

LowHp == 12000

\* A warrior late in stage k with n monsters of the stage's pool alive and the
\* first two of them wounded, a slash in flight; the next spawn is due, and the stage timer has
\* timeLeft to run. (Stages 3 and 4 can spawn up to 265 and 333 monsters, more
\* than their caps of 252 and 276; the earlier stages cannot reach theirs.)
Crowd(k, n, timeLeft) ==
    LET fresh == createInitialState("warrior")
        stage == STAGES[k + 1]
        kind == stage.monsterPool[1]
        stageFactor == 1000 + k * 230
    IN  [fresh EXCEPT
            !.ids = 3000,
            !.stageIndex = k,
            !.stageTimeLeft = timeLeft,
            !.spawnTimer = 30,
            !.monsters = [i \in 1..n |->
                             [id |-> 2000 + i, kind |-> kind,
                              hp |-> IF i <= 2 THEN 9000
                                     ELSE Scale(MONSTER_CONFIGS[kind].hp, stageFactor),
                              damage |-> Scale(MONSTER_CONFIGS[kind].damage, stageFactor),
                              expValue |-> MONSTER_CONFIGS[kind].exp, isBoss |-> FALSE]],
            !.projectiles = << [id |-> 2990, damage |-> fresh.player.damage, life |-> 300,
                                pierceLeft |-> 98, critChance |-> fresh.player.critChance,
                                kind |-> "slash", aoeRadius |-> 0, hits |-> 1,
                                budget |-> 99] >>,
            !.player.attackCooldown = 200,
            !.player.exp = 10,
            !.kills = 40, !.combo = 0, !.bestCombo = 9]

MonsterCap(k) == MAX_MONSTERS_BASE + k * MAX_MONSTERS_PER_STAGE

Crowds ==
    {Crowd(k, MonsterCap(k) - d, timeLeft) :
        k \in {3, 4}, d \in {0, 1}, timeLeft \in {40, 5000}}

InitCrowd == state \in Crowds /\ call = NoCall

\* The gem drop at its cap: a last stage with n gems on the ground, the first of
\* them at the player's feet, three monsters near, two of them wounded, a slash
\* in flight. (A stage spawns at most 333 monsters, so a session does not bring
\* 520 gems together: the states sample what processDeathsAndProgression is
\* written for.)
Hoard(n) ==
    [Crowd(4, 3, 30000) EXCEPT !.gems = [i \in 1..n |-> 16],
                               !.spawnTimer = 400]

Hoards == {Hoard(MAX_GEMS - d) : d \in {0, 1}}

InitHoard == state \in Hoards /\ call = NoCall

\* The first boss fight with the stage's gems left on the ground: collected
\* together they are worth two levels (27 + 68 = 35 + 60).
Harvest(characterId) ==
    [BossFight(characterId, 0, CHARACTER_CONFIGS[characterId].maxHp, TRUE)
        EXCEPT !.gems = << 8, 9, 8, 9, 8, 9, 8, 9 >>]

Sessions ==
    {createInitialState(c) : c \in CharacterIds}
    \cup {Harvest(c) : c \in CharacterIds}
    \cup {BossFight(c, 0, LowHp, TRUE) : c \in CharacterIds}
    \cup {BossFight(c, 0, CHARACTER_CONFIGS[c].maxHp, FALSE) : c \in CharacterIds}
    \cup {BossFight(c, 4, LowHp, TRUE) : c \in CharacterIds}
    \cup {BossFight(c, 4, CHARACTER_CONFIGS[c].maxHp, FALSE) : c \in CharacterIds}

Init == state \in Sessions /\ call = NoCall

(* ------------------------------ the actions ----------------------------- *)

\* the call is made; a call that is followed without being counted leaves the
\* count of calls as it was
Step(c, counted) ==
    \E done \in {c} :
        /\ state' = Program(done)
        /\ call' = IF counted THEN done.obs ELSE [done.obs EXCEPT !.n = call.n]

Do(c) == Step(c, TRUE)

\* update reaches the nine gameplay sub-updates
IsGameplay(d) ==
    /\ clamp(d, 0, MaxDt) > 0
    /\ ~state.paused
    /\ state.hitStopTimer <= 0
    /\ ~(state.gameOver \/ state.victory)
    /\ ~state.awaitingUpgrade
    /\ ~state.stageClearReady

Targets == NearMonsters \cap (1..Len(state.monsters))

Pickups == NearGems \cap (1..Len(state.gems))

\* a random decision is due this tick: a boss attack or a spawn
DecisionDue ==
    \/ state.bossId # 0 /\ state.bossAttackCooldown <= MaxDt
    \/ ~state.bossSpawned /\ state.spawnTimer <= MaxDt

\* a telegraph resolves this tick
TelegraphDue == \E i \in 1..Len(state.bossTelegraphs) : state.bossTelegraphs[i].life <= MaxDt

\* a ranged attack looks for targets this tick
VolleyDue ==
    /\ attackStyle(state) # "slash_projectile"
    /\ state.player.attackCooldown <= MaxDt

UpdateBy(d, counted) ==
    IF IsGameplay(d)
    THEN \E u \in (IF DecisionDue THEN Rolls ELSE {50}),
            touch \in SUBSET Targets, struck \in SUBSET Targets,
            collect \in SUBSET Pickups,
            inside \in (IF TelegraphDue THEN BOOLEAN ELSE {FALSE}),
            inRange \in (IF VolleyDue THEN BOOLEAN ELSE {TRUE}) :
                Step(update(Begin("update", d,
                                  [u |-> u, seed |-> u, touch |-> touch, struck |-> struck,
                                   collect |-> collect, inside |-> inside,
                                   inRange |-> inRange]), d),
                     counted)
    ELSE Step(update(Begin("update", d, [NoInput EXCEPT !.u = 50]), d), counted)

Update == \E d \in DeltaSeconds : UpdateBy(d, TRUE)

\* the upgrade asked for: any of them while the gate is open, two samples of
\* them (a stat, a skill) while it is closed
Asked ==
    IF state.awaitingUpgrade /\ state.pendingLevelUps > 0 THEN UpgradeTypes
    ELSE {"heal", "skillBlade"}

ApplyUpgradeOf(types, counted) ==
    \E type \in types, u \in (IF state.pendingLevelUps > 1 THEN Rolls ELSE {50}) :
        Step(applyUpgrade(Begin("applyUpgrade", type, [NoInput EXCEPT !.u = u, !.seed = u]),
                          type),
             counted)

ApplyUpgrade == ApplyUpgradeOf(Asked, TRUE)

TogglePause == Do(togglePause(Begin("togglePause", 0, NoInput)))

\* handleAdvanceStage reads whether the stage advanced
AdvanceToNextStage ==
    \E c \in {advanceToNextStage(Begin("advanceToNextStage", 0, [NoInput EXCEPT !.u = 50]))} :
        Do([c EXCEPT !.obs.ret = c.obs.advanced])

ConsumeAudioEvents == Do(consumeAudioEvents(Begin("consumeAudioEvents", 0, NoInput)))

\* the session is inside the horizon
Within == call.n < MaxCalls

Next ==
    \/ Within /\ Update
    \/ Within /\ ApplyUpgrade
    \/ Within /\ TogglePause
    \/ Within /\ AdvanceToNextStage
    \/ Within /\ ConsumeAudioEvents

Spec == Init /\ [][Next]_vars

\* the same calls, from crowded stages
SpecCrowd == InitCrowd /\ [][Next]_vars

\* the same calls, from stages with the gems at their cap
SpecHoard == InitHoard /\ [][Next]_vars

(* ------------------------------ hp (C1) --------------------------------- *)

\* C1: after any sequence of update, applyUpgrade, togglePause and
\* advanceToNextStage calls the player's hp lies in [0, maxHp], and whenever it
\* is 0 the gameOver flag is true.
HpWithinBounds ==
    /\ 0 <= state.player.hp
    /\ state.player.hp <= state.player.maxHp
    /\ (state.player.hp = 0 => state.gameOver)

\* an update in which a hit took more hp than the player had left
HpFlooredByHit ==
    /\ call.op = "update"
    /\ call.hits > 0
    /\ call.taken > LowHp
    /\ state.player.hp = 0
    /\ state.gameOver

(* --------------------------- telegraphs (C2) ---------------------------- *)

Ids(q) == {q[i].id : i \in 1..Len(q)}

Range(q) == {q[i] : i \in 1..Len(q)}

NoDuplicates(q) == \A i, j \in 1..Len(q) : q[i] = q[j] => i = j

\* the ids of the telegraphs whose life runs out in the call that leads to the
\* primed state: those of a gameplay tick whose life is at most the tick's dt
RunningOut ==
    IF call'.fullTick
    THEN {state.bossTelegraphs[i].id : i \in {j \in 1..Len(state.bossTelegraphs) :
              state.bossTelegraphs[j].life <= clamp(call'.arg, 0, MaxDt)}}
    ELSE {}

\* what C2 says of resolution: a call resolves exactly the telegraphs whose life
\* runs out in it, each once over the session, removes them, and leaves none
\* with life <= 0
ResolvedWhenDue ==
    /\ Range(call'.resolved) = RunningOut
    /\ NoDuplicates(call'.resolvedAll)
    /\ Range(call'.resolved) \cap Ids(state'.bossTelegraphs) = {}
    /\ \A i \in 1..Len(state'.bossTelegraphs) : state'.bossTelegraphs[i].life > 0

\* the telegraphs that left the active set in the call: there before it or
\* emitted in it, and not there after it
Gone == (Ids(state.bossTelegraphs) \cup Range(call'.emitted)) \ Ids(state'.bossTelegraphs)

\* C2 as stated: every emitted boss telegraph is resolved exactly once, in the
\* tick in which its life first becomes <= 0, and removed in that tick; none is
\* hit-tested twice, none stays with life <= 0, and none leaves the active set
\* without having been resolved.
TelegraphsResolvedOnce ==
    [][ResolvedWhenDue /\ Gone \subseteq Range(call'.resolved)]_vars

\* C2 amended: as stated, except that a telegraph may leave the active set
\* unresolved in a tick in which the boss is removed as dead.
TelegraphsResolvedOnceUnlessBossDies ==
    [][/\ ResolvedWhenDue
       /\ ~call'.bossDefeated => Gone \subseteq Range(call'.resolved)]_vars

\* a tick resolved the telegraph that was pending, hit the player with it and
\* removed it
TelegraphResolvedAndRemoved ==
    /\ call.fullTick
    /\ call.resolved = << 30 >>
    /\ call.hits > 0
    /\ 30 \notin Ids(state.bossTelegraphs)

(* ------------------------- terminal states (C3) ------------------------- *)

\* the player's stats: what the upgrades change
Stats(p) ==
    [maxHp |-> p.maxHp, speed |-> p.speed, damage |-> p.damage,
     attackInterval |-> p.attackInterval, range |-> p.range, projectiles |-> p.projectiles,
     critChance |-> p.critChance, armor |-> p.armor, magnetRadius |-> p.magnetRadius,
     pierce |-> p.pierce]

\* what C3 says a call leaves alone once the session has ended
Frozen(s) ==
    [stageIndex |-> s.stageIndex, hp |-> s.player.hp, stats |-> Stats(s.player),
     skills |-> s.skills, monsters |-> s.monsters, projectiles |-> s.projectiles,
     gems |-> s.gems]

\* C3: gameOver and victory are absorbing: once either flag is true it is never
\* cleared, and from then on no call to update, applyUpgrade, advanceToNextStage
\* or togglePause changes stageIndex, player.hp, the player's stats, the skill
\* levels, or the monster, projectile and gem sets.
TerminalStatesAbsorb ==
    [][(state.gameOver \/ state.victory) =>
           /\ state.gameOver => state'.gameOver
           /\ state.victory => state'.victory
           /\ Frozen(state') = Frozen(state)]_vars

(* --------------------------- monster cap (C4) --------------------------- *)

\* C4: in every reachable state the number of monsters in the monster set, the
\* boss included, is at most 180 + stageIndex * 24.
MonstersWithinCap == Len(state.monsters) <= MonsterCap(state.stageIndex)

\* the stage timer ran out with the monster set at its cap: the boss was spawned
\* on top of it
BossSpawnedAtCap ==
    /\ call.op = "update"
    /\ call.bossSpawns = 1
    /\ Len(state.monsters) = MonsterCap(state.stageIndex) + 1

(* ----------------------------- gem cap (C5) ----------------------------- *)

\* C5: the gem set never holds more than 520 gems; when a regular monster dies
\* while the set already holds 520 gems, no gem is created and the monster's exp
\* value is added to exactly one existing gem, so the sum of the gem values still
\* grows by that exp value.
GemsWithinCap ==
    /\ Len(state.gems) <= MAX_GEMS
    /\ \A k \in 1..Len(call.drops) :
           call.drops[k].lenBefore >= MAX_GEMS =>
               /\ call.drops[k].lenAfter = call.drops[k].lenBefore
               /\ call.drops[k].changed = 1
               /\ call.drops[k].sumAfter = call.drops[k].sumBefore + call.drops[k].value

\* a tick killed two monsters, the first filling the gem set to its cap and the
\* second merged into a gem
GemMergedAtCap ==
    /\ call.fullTick
    /\ Len(call.drops) = 2
    /\ call.drops[1].lenBefore = MAX_GEMS - 1
    /\ call.drops[1].lenAfter = MAX_GEMS
    /\ call.drops[2].lenBefore = MAX_GEMS
    /\ call.drops[2].changed = 1
    /\ Len(state.gems) = MAX_GEMS

(* ---------------------------- audio queue (C6) -------------------------- *)

IsPrefix(p, q) == Len(p) <= Len(q) /\ SubSeq(q, 1, Len(p)) = p

\* C6: consumeAudioEvents returns every event emitted since the previous drain
\* exactly once and empties the queue: the other calls only append to the queue,
\* a drain returns the whole queue and leaves it empty, a second drain with no
\* update in between returns an empty list, and no event is returned by two
\* calls.
AudioDrainedOnce ==
    [][/\ call'.op # "consumeAudioEvents" =>
              IsPrefix(state.audioEvents, state'.audioEvents)
       /\ call'.op = "consumeAudioEvents" =>
              /\ call'.drained = state.audioEvents
              /\ state'.audioEvents = <<>>
              /\ call.op = "consumeAudioEvents" => call'.drained = <<>>
       /\ NoDuplicates(call'.delivered)]_vars

\* an update queued events, a drain returned them, and the drain after it
\* returned nothing
SecondDrainEmpty ==
    /\ call.n = 3
    /\ call.op = "consumeAudioEvents"
    /\ call.drained = <<>>
    /\ Len(call.delivered) >= 2
    /\ state.audioEvents = <<>>

(* ------------------------ the boss is killed (C7, C9) -------------------- *)

\* the exp a player needs at a level to reach the next one
RECURSIVE NeedAt(_)
NeedAt(level) == IF level <= 1 THEN 35 ELSE (NeedAt(level - 1) * 128) \div 100 + 16

RECURSIVE NeedBelow(_)
NeedBelow(level) == IF level <= 1 THEN 0 ELSE NeedBelow(level - 1) + NeedAt(level - 1)

\* all the exp a player has gained
ExpTotal(p) == NeedBelow(p.level) + p.exp

\* this step is the tick in which the boss is removed as dead
BossRemoved == call'.op = "update" /\ call'.bossDefeated

\* C7: in the tick in which the boss of a non-final stage is removed as dead,
\* stageClearReady becomes true with a delay of 2.8 s, every gem (those on the
\* ground and those dropped in the tick) is collected, its exp applied to the
\* player and the gem set emptied, the monster, projectile and telegraph sets
\* are emptied, and combo is 0 at the end of the tick.
StageClearedWithBoss ==
    [][BossRemoved /\ state.stageIndex < Len(STAGES) - 1 =>
          /\ state'.stageClearReady
          /\ state'.stageClearDelay = 2800
          /\ state'.gems = <<>>
          /\ ExpTotal(state'.player) =
                 ExpTotal(state.player) + SumSeq(state.gems) + call'.dropped
          /\ state'.monsters = <<>>
          /\ state'.projectiles = <<>>
          /\ state'.bossTelegraphs = <<>>
          /\ state'.combo = 0]_vars

\* the boss of the first stage and a monster died in one tick: the gem the
\* monster dropped was collected with the stage
StageClearVacuumed ==
    /\ call.op = "update"
    /\ call.bossDefeated
    /\ call.dropped > 0
    /\ state.stageIndex = 0
    /\ state.stageClearReady
    /\ state.gems = <<>>

\* C9: when the boss of the final stage (stageIndex 4) is removed as dead,
\* victory becomes true, stageClearReady stays false and stageIndex does not
\* change, in that tick and from then on.
FinalBossIsVictory ==
    /\ [][BossRemoved /\ state.stageIndex = 4 =>
             /\ state'.victory
             /\ ~state.stageClearReady /\ ~state'.stageClearReady
             /\ state'.stageIndex = 4]_vars
    /\ [](state.victory => ~state.stageClearReady /\ state.stageIndex = 4)

\* the boss of the last stage died
FinalBossKilled ==
    /\ call.op = "update"
    /\ call.bossDefeated
    /\ state.stageIndex = 4
    /\ state.victory

(* ----------------------------- level-up (C10) --------------------------- *)

\* C10: when a gain of exp makes player.exp exactly equal to expToNext while no
\* upgrade gate is open, player.level increases by exactly 1, pendingLevelUps
\* increases by exactly 1, player.exp becomes 0 and awaitingUpgrade becomes
\* true.
ExactGainLevelsOnce ==
    \A i \in 1..Len(call.gains) :
        LET g == call.gains[i]
        IN  g.exp + g.amount = g.expToNext /\ ~g.gate =>
                /\ g.levelAfter = g.level + 1
                /\ g.pendingAfter = g.pending + 1
                /\ g.expAfter = 0
                /\ g.gateAfter

\* a gem worth exactly what the player was short of was picked up
ExactGainMade ==
    \E i \in 1..Len(call.gains) :
        LET g == call.gains[i]
        IN  /\ g.exp + g.amount = g.expToNext /\ ~g.gate
            /\ g.amount = 8 /\ g.level = 1 /\ g.levelAfter = 2
            /\ state.awaitingUpgrade

(* ------------------- the stage after the boss (C8) ----------------------- *)

\* the stages whose boss fights are followed to the next stage
LiveStages == {0, 3}

\* public calls explored from a boss fight until the boss falls
LiveCalls == 2

Duels ==
    {BossFight(c, k, LowHp, TRUE) : c \in CharacterIds, k \in LiveStages}
    \cup {BossFight(c, k, CHARACTER_CONFIGS[c].maxHp, FALSE) :
             c \in CharacterIds, k \in LiveStages}

InitLive == state \in Duels /\ call = NoCall

\* A boss fight is followed inside the horizon until the boss falls, and from
\* there, without a bound on the calls (they are no longer counted), until the
\* next stage begins.
Following ==
    /\ state.stageIndex \in LiveStages
    /\ state.stageClearReady \/ call.n < LiveCalls

\* the frame loop calls update with a positive deltaSeconds
LiveUpdate == Following /\ UpdateBy(80, ~state.stageClearReady)

\* the player picks one of the upgrades on offer
LiveUpgrade ==
    /\ Following
    /\ state.awaitingUpgrade
    /\ ApplyUpgradeOf({state.upgradeChoices[i] : i \in 1..Len(state.upgradeChoices)},
                      ~state.stageClearReady)

NextLive ==
    \/ LiveUpdate
    \/ LiveUpgrade

\* once the boss has fallen update keeps being called, and an open upgrade
\* choice is resolved in the end; advanceToNextStage is never called from outside
SpecLive ==
    /\ InitLive
    /\ [][NextLive]_vars
    /\ WF_vars(state.stageClearReady /\ LiveUpdate)
    /\ WF_vars(LiveUpgrade)

\* C8 as stated: once the boss of a non-final stage has been killed, with update
\* called again and again with a positive dt and every upgrade choice resolved,
\* and no advance asked for from outside, stageIndex eventually increases by
\* exactly 1 and stageClearReady becomes false.
StageAdvancesAfterBoss ==
    \A k \in LiveStages :
        (state.stageClearReady /\ state.stageIndex = k)
            ~> (state.stageIndex = k + 1 /\ ~state.stageClearReady)

\* C8, amended: the same, for a player who is alive when the boss falls.
StageAdvancesAfterBossIfAlive ==
    \A k \in LiveStages :
        (state.stageClearReady /\ state.stageIndex = k /\ ~state.gameOver)
            ~> (state.stageIndex = k + 1 /\ ~state.stageClearReady)

\* the grace delay ran out in an update, after the upgrade the stage's gems
\* brought was chosen, and the second stage began
StageAdvancedByUpdate ==
    /\ call.op = "update"
    /\ call.advanced
    /\ state.stageIndex = 1
    /\ ~state.stageClearReady
    /\ state.player.level >= 2
    /\ state.pendingLevelUps = 0

(* ------------------------ the upgrade gate (C11, C12) -------------------- *)

\* C11: whenever awaitingUpgrade is true, upgradeChoices holds exactly 3
\* options with pairwise distinct ids; when applyUpgrade has closed the gate,
\* upgradeChoices is empty.
ThreeDistinctChoices ==
    /\ state.awaitingUpgrade =>
           /\ Len(state.upgradeChoices) = 3
           /\ NoDuplicates(state.upgradeChoices)
           /\ Range(state.upgradeChoices) \subseteq UpgradeTypes
    /\ call.op = "applyUpgrade" /\ call.applied /\ ~state.awaitingUpgrade =>
           state.upgradeChoices = <<>>

\* an upgrade was applied with a level still pending: the gate stayed open with
\* three new choices
ChoicesReopened ==
    /\ call.op = "applyUpgrade"
    /\ call.applied
    /\ state.awaitingUpgrade
    /\ Len(state.upgradeChoices) = 3

\* C12: after every public operation pendingLevelUps equals the number of
\* levels gained so far minus the number of upgrades applied so far (every call
\* changes it by the levels it gained less the upgrade it applied, from 0 at
\* level 1), it is never negative, and awaitingUpgrade is true exactly when
\* pendingLevelUps > 0.
PendingCountsOpenChoices ==
    /\ [][state'.pendingLevelUps =
              state.pendingLevelUps + (state'.player.level - state.player.level)
                  - (IF call'.applied THEN 1 ELSE 0)]_vars
    /\ [](/\ state.pendingLevelUps >= 0
          /\ state.awaitingUpgrade <=> state.pendingLevelUps > 0)

\* two levels were gained at once and one upgrade has been applied
OneOfTwoChoicesLeft ==
    /\ call.op = "applyUpgrade"
    /\ call.applied
    /\ state.player.level = 3
    /\ state.pendingLevelUps = 1
    /\ state.awaitingUpgrade

(* ------------------------------ pause (C13, C14) ------------------------- *)

\* canTogglePause is false
Gated == state.gameOver \/ state.victory \/ state.awaitingUpgrade \/ state.stageClearReady

\* C13: togglePause flips the paused flag only when none of gameOver, victory,
\* awaitingUpgrade or stageClearReady is true, and then returns the new value;
\* in any of those states it returns the current paused value and leaves the
\* whole state unchanged.
PauseOnlyWhilePlaying ==
    [][call'.op = "togglePause" =>
          IF Gated
          THEN state' = state /\ call'.ret = state.paused
          ELSE /\ state' = [state EXCEPT !.paused = ~state.paused]
               /\ call'.ret = state'.paused]_vars

\* togglePause was called in a cleared stage that waits for the next one, and
\* the game is not paused
PauseRefused ==
    /\ call.op = "togglePause"
    /\ state.stageClearReady
    /\ ~state.paused
    /\ call.ret = FALSE

\* C14: while paused is true, update changes nothing except the camera (which
\* is outside this state): player, monsters, projectiles, gems, telegraphs,
\* cosmetic effects, all timers and the audio queue are left unchanged.
PausedUpdateChangesNothing ==
    [][call'.op = "update" /\ state.paused => state' = state]_vars

\* update was called with time to spend in a paused boss fight with a telegraph
\* about to resolve
PausedFightUpdated ==
    /\ call.op = "update"
    /\ call.arg > 0
    /\ state.paused
    /\ state.bossId # 0
    /\ \E i \in 1..Len(state.bossTelegraphs) : state.bossTelegraphs[i].life <= MaxDt

(* ------------------- gates of the public calls (C15-C17) ----------------- *)

\* C15: while awaitingUpgrade is true, update does not change the stage timer,
\* the spawn timer, the stage-clear grace delay, stageIndex, the player's
\* position (updatePlayer, which moves the player, does not run) or hp, or the
\* monster, projectile, gem and telegraph sets, and advanceToNextStage returns
\* false without changing state.
UpgradeGateBlocksProgress ==
    [][state.awaitingUpgrade =>
          /\ call'.op = "update" =>
                 /\ state'.stageTimeLeft = state.stageTimeLeft
                 /\ state'.spawnTimer = state.spawnTimer
                 /\ state'.stageClearDelay = state.stageClearDelay
                 /\ state'.stageIndex = state.stageIndex
                 /\ ~call'.fullTick
                 /\ state'.player.hp = state.player.hp
                 /\ state'.monsters = state.monsters
                 /\ state'.projectiles = state.projectiles
                 /\ state'.gems = state.gems
                 /\ state'.bossTelegraphs = state.bossTelegraphs
          /\ call'.op = "advanceToNextStage" =>
                 state' = state /\ call'.ret = FALSE]_vars

\* update was called with time to spend while a cleared stage waits behind an
\* open upgrade choice: the grace delay has not begun to run
GateHeldStageClear ==
    /\ call.op = "update"
    /\ call.arg > 0
    /\ ~call.fullTick
    /\ state.awaitingUpgrade
    /\ state.stageClearReady
    /\ state.stageClearDelay = 2800
    /\ state.hitStopTimer <= 0
    /\ ~state.gameOver

\* this step is a call of advanceToNextStage from outside
AdvanceAsked == call'.op = "advanceToNextStage"

\* C16 as stated: an external advanceToNextStage request succeeds (returns true
\* and advances the stage) only when stageClearReady is true, the grace
\* countdown stageClearDelay has elapsed to 0 and no level-up is pending; in
\* every other state it returns false and leaves the state unchanged.
AdvanceOnlyAfterGrace ==
    [][AdvanceAsked =>
          IF /\ state.stageClearReady
             /\ state.stageClearDelay = 0
             /\ ~state.awaitingUpgrade /\ state.pendingLevelUps = 0
          THEN TRUE
          ELSE call'.ret = FALSE /\ state' = state]_vars

\* C16, amended: an external advanceToNextStage request succeeds (returns true
\* and raises stageIndex by 1) exactly when stageClearReady is true, the stage
\* is not the last one and no level-up is pending, whatever is left of the
\* grace countdown; in every other state it returns false and leaves the state
\* unchanged.
AdvanceOnlyWhenStageClear ==
    [][AdvanceAsked =>
          IF /\ state.stageClearReady
             /\ state.stageIndex < Len(STAGES) - 1
             /\ ~state.awaitingUpgrade /\ state.pendingLevelUps = 0
          THEN /\ call'.ret = TRUE
               /\ state'.stageIndex = state.stageIndex + 1
               /\ ~state'.stageClearReady
          ELSE call'.ret = FALSE /\ state' = state]_vars

\* the boss fell in the first call and the request of the second call, with the
\* grace countdown at 2.8 s, began the second stage
AdvancedOnRequest ==
    /\ call.op = "advanceToNextStage"
    /\ call.n = 2
    /\ call.ret = TRUE
    /\ state.stageIndex = 1
    /\ ~state.stageClearReady

\* C17: applyUpgrade called while awaitingUpgrade is false or pendingLevelUps
\* is 0 leaves the entire state unchanged.
UpgradeOutsideGateIgnored ==
    [][/\ call'.op = "applyUpgrade"
       /\ ~state.awaitingUpgrade \/ state.pendingLevelUps = 0
       => state' = state /\ ~call'.applied]_vars

\* an upgrade was asked for with the gate closed in a boss fight
UpgradeRefused ==
    /\ call.op = "applyUpgrade"
    /\ ~call.applied
    /\ ~state.awaitingUpgrade
    /\ state.pendingLevelUps = 0
    /\ state.bossId # 0

(* ------------------------ the first spawn (C18) -------------------------- *)

\* the game time a fresh session is followed for, in milliseconds
FreshTime == 1000

\* deltaSeconds of its update calls: no time, a frame above the clamp
FreshDeltas == {0, 80}

InitFresh == state \in {createInitialState(c) : c \in CharacterIds} /\ call = NoCall

\* the accumulated clamped tick time of a session on its first stage: what the
\* stage timer has run down
Elapsed == STAGES[1].duration - state.stageTimeLeft

\* Only update is called; the calls are not counted. A monster is spawned 430
\* to 640 away from the player, who stands in the middle of the world, and the
\* two close in on each other by less than 465 a second: in the time followed no
\* monster touches the player and no gem is in reach, but a shot may strike.
FreshUpdate ==
    /\ Elapsed < FreshTime
    /\ \E d \in FreshDeltas, u \in (IF DecisionDue THEN Rolls ELSE {50}),
          struck \in SUBSET Targets :
            Step(update(Begin("update", d,
                              [NoInput EXCEPT !.u = u, !.seed = u, !.struck = struck]), d),
                 FALSE)

NextFresh == FreshUpdate

SpecFresh == InitFresh /\ [][NextFresh]_vars

\* monsters spawned so far: those alive and those killed
Spawned == Len(state.monsters) + state.kills

\* C18 as stated: in a fresh session on stage 1 the monster set is empty as
\* long as the accumulated clamped tick time is below the 0.9 s base spawn
\* interval, and holds at least one monster once 0.9 s of ticks have elapsed.
NoMonsterBeforeBaseInterval ==
    /\ Elapsed < 900 => state.monsters = <<>>
    /\ Elapsed >= 900 => Len(state.monsters) >= 1

\* C18, amended: in a fresh session on stage 1 the monster set is empty as long
\* as the accumulated clamped tick time is below the 0.65 s of the initial
\* spawn timer, and a monster has been spawned once the accumulated time has
\* passed 0.65 s by a tick (0.7 s, well before 0.9 s).
FirstMonsterAfterInitialTimer ==
    /\ Elapsed < 650 => Spawned = 0
    /\ Elapsed >= 650 + MaxDt => Spawned >= 1

\* the first monster was spawned in the tick that brought the time to 0.65 s
FirstMonsterSpawned ==
    /\ call.op = "update"
    /\ call.spawned = 1
    /\ Elapsed = 650
    /\ Len(state.monsters) = 1

(* ----------------------- telegraph strikes (C19) ------------------------- *)

\* update calls followed from an ambush
StrikeCalls == 2

TelegraphKinds == {"circle", "cone", "line"}

\* A boss fight on the first stage with a telegraph of some kind about to
\* resolve, the player hurt or whole and, with t > 0, touched by a monster a
\* moment ago: invincible for t more milliseconds (50: until this tick begins).
Ambush(characterId, hp, t, kind) ==
    [BossFight(characterId, 0, hp, TRUE) EXCEPT !.player.invincibleTimer = t,
                                                !.bossTelegraphs[1].kind = kind]

Ambushes ==
    {Ambush(c, LowHp, t, kind) : c \in CharacterIds, t \in {0, 50, 300},
                                 kind \in TelegraphKinds}
    \cup {Ambush(c, CHARACTER_CONFIGS[c].maxHp, t, kind) :
             c \in CharacterIds, t \in {0, 50, 300}, kind \in TelegraphKinds}

InitStrike == state \in Ambushes /\ call = NoCall

NextStrike == call.n < StrikeCalls /\ Update

SpecStrike == InitStrike /\ [][NextStrike]_vars

\* the armor factor of a kind of telegraph, and the least and the greatest
\* random factor on its damage, in thousandths
KindFactor(kind) == CASE kind = "circle" -> 650 [] kind = "cone" -> 620 [] OTHER -> 600

LeastJitter(kind) == CASE kind = "circle" -> 920 [] OTHER -> 940

MostJitter(kind) ==
    CASE kind = "circle" -> 1120 [] kind = "cone" -> 1150 [] OTHER -> 1140

\* damage x jitter x (1 - armor x kind factor) for a strike r
Reduced(r, jitter) ==
    Scale(Scale(r.damage, jitter), 1000 - Scale(r.armor, KindFactor(r.kind)))

\* the strikes of this call that found the player inside the hit geometry
StrikesInside == {k \in 1..Len(call.strikes) : call.strikes[k].inside}

\* an invincible player is left alone
Spared(r) ==
    /\ r.hpAfter = r.hp
    /\ r.comboAfter = r.combo
    /\ r.invincibleAfter = r.invincible
    /\ r.gameOverAfter = r.gameOver

\* C19 as stated: when a telegraph resolves with the player inside its hit
\* geometry: if the invincibility timer is positive, hp, combo and
\* invincibility are unchanged; otherwise hp is reduced by
\* damage x (1 - armor x kind factor), invincibility is set, combo becomes 0,
\* and if the result is <= 0 then hp is set to exactly 0 and gameOver becomes
\* true.
StrikeTakesAuthoredDamage ==
    \A k \in StrikesInside :
        LET r == call.strikes[k]
        IN  IF r.invincible > 0 THEN Spared(r)
            ELSE /\ r.invincibleAfter = 620
                 /\ r.comboAfter = 0
                 /\ IF r.hp - Reduced(r, 1000) <= 0
                    THEN r.hpAfter = 0 /\ r.gameOverAfter
                    ELSE r.hpAfter = r.hp - Reduced(r, 1000)

\* C19, amended: the same, with the damage multiplied by a random factor before
\* the armor is taken off: hp is reduced by
\* damage x jitter x (1 - armor x kind factor), jitter between 0.92 and 1.12
\* for a circle, 0.94 and 1.15 for a cone, 0.94 and 1.14 for a line.
StrikeTakesJitteredDamage ==
    \A k \in StrikesInside :
        LET r == call.strikes[k]
            least == Reduced(r, LeastJitter(r.kind))
            most == Reduced(r, MostJitter(r.kind))
        IN  IF r.invincible > 0 THEN Spared(r)
            ELSE /\ r.invincibleAfter = 620
                 /\ r.comboAfter = 0
                 /\ \/ /\ r.hpAfter = 0
                       /\ r.gameOverAfter
                       /\ r.hp - most <= 0
                    \/ /\ r.hpAfter > 0
                       /\ r.gameOverAfter = r.gameOver
                       /\ r.hp - r.hpAfter >= least
                       /\ r.hp - r.hpAfter <= most

\* a telegraph struck a player who was not invincible and took more than its
\* authored damage less the armor
StrikeJittered ==
    \E k \in StrikesInside :
        LET r == call.strikes[k]
        IN  /\ r.invincible = 0
            /\ r.hpAfter > 0
            /\ r.hp - r.hpAfter > Reduced(r, 1000)
            /\ r.comboAfter = 0 /\ r.combo > 0

(* ---------------------- the end of a projectile (C20) -------------------- *)

\* A boss fight on the first stage in which the shot in flight has life left
\* for one tick exactly (50 ms), for less, or for two ticks.
LastFlight(characterId, life) ==
    [BossFight(characterId, 0, CHARACTER_CONFIGS[characterId].maxHp, FALSE)
        EXCEPT !.projectiles[1].life = life]

InitFlight ==
    /\ state \in {LastFlight(c, life) : c \in CharacterIds, life \in {20, 50, 100}}
    /\ call = NoCall

SpecFlight == InitFlight /\ [][NextStrike]_vars

\* C20: a projectile whose remaining life reaches <= 0 during a tick is removed
\* in that tick before any collision test: it damages no monster in that tick
\* and is absent from the projectile set afterwards.
SpentProjectileRemoved ==
    \A k \in 1..Len(call.flown) :
        call.flown[k].life <= 0 =>
            /\ call.flown[k].hits = 0
            /\ call.flown[k].id \notin Ids(state.projectiles)

\* a shot's life ran out to exactly 0 in a tick in which monsters were in its
\* path, and another attack of that tick damaged them
SpentAmongMonsters ==
    /\ call.op = "update"
    /\ \E k \in 1..Len(call.flown) : call.flown[k].life = 0 /\ call.flown[k].id = 20
    /\ call.monsterHits # <<>>

(* ------------------------------ the boss (C21) --------------------------- *)

\* calls followed from the eve of a boss fight
StageCalls == 3

\* The eve of a boss fight on stage k: the stage timer has timeLeft to run, a
\* monster of the stage's pool (id 11) is near the player, wounded, the next
\* spawn is due and the character's attack is about to be made.
Eve(characterId, k, timeLeft) ==
    LET fresh == createInitialState(characterId)
        kind == STAGES[k + 1].monsterPool[1]
        stageFactor == 1000 + k * 230
    IN  [fresh EXCEPT
            !.ids = 40,
            !.stageIndex = k,
            !.stageTimeLeft = timeLeft,
            !.spawnTimer = 30,
            !.monsters = << [id |-> 11, kind |-> kind, hp |-> 9000,
                             damage |-> Scale(MONSTER_CONFIGS[kind].damage, stageFactor),
                             expValue |-> MONSTER_CONFIGS[kind].exp, isBoss |-> FALSE] >>,
            !.player.exp = 10,
            !.player.attackCooldown = 40,
            !.kills = 6, !.combo = 2, !.bestCombo = 4]

\* the stage timer runs out in the first tick, exactly or with time to spare,
\* or in the second
Eves == {Eve(c, k, timeLeft) : c \in CharacterIds, k \in {0, 4}, timeLeft \in {40, 50, 90}}

\* the eves of the boss fights and the fights themselves
InitStage ==
    /\ state \in Eves \cup {BossFight(c, k, CHARACTER_CONFIGS[c].maxHp, FALSE) :
                               c \in CharacterIds, k \in {0, 4}}
    /\ call = NoCall

NextStage ==
    \/ call.n < StageCalls /\ Update
    \/ call.n < StageCalls /\ ApplyUpgrade
    \/ call.n < StageCalls /\ TogglePause
    \/ call.n < StageCalls /\ AdvanceToNextStage
    \/ call.n < StageCalls /\ ConsumeAudioEvents

SpecStage == InitStage /\ [][NextStage]_vars

Bosses(s) == {i \in 1..Len(s.monsters) : s.monsters[i].isBoss}

\* C21: in every reachable state the monster set contains at most one monster
\* with isBoss = true, and bossId is non-null exactly when a monster with that
\* id is in the set; when bossId does not resolve, the snapshot reports
\* bossActive = false, bossName = null and bossHp = 0.
AtMostOneBoss ==
    /\ Cardinality(Bosses(state)) <= 1
    /\ state.bossId # 0 <=> \E i \in 1..Len(state.monsters) :
                                state.monsters[i].id = state.bossId
    /\ (\A i \in 1..Len(state.monsters) : state.monsters[i].id # state.bossId) =>
           /\ getSnapshot(state).bossActive = FALSE
           /\ getSnapshot(state).bossName = NoName
           /\ getSnapshot(state).bossHp = 0

\* the last boss was killed in a tick that a monster survived: the monster set
\* is left without a boss, bossId is null and the snapshot reports no boss
BossGoneMonstersLeft ==
    /\ call.op = "update"
    /\ call.bossDefeated
    /\ state.monsters # <<>>
    /\ Bosses(state) = {}
    /\ state.bossId = 0
    /\ ~getSnapshot(state).bossActive

\* a tick spawned the boss: it is the one boss of the monster set, bossId
\* resolves to it and the snapshot reports it at its full hp
BossSpawnedAndReported ==
    /\ call.op = "update"
    /\ call.bossSpawns = 1
    /\ Cardinality(Bosses(state)) = 1
    /\ getSnapshot(state).bossActive
    /\ getSnapshot(state).bossName = currentStage(state).boss.name
    /\ getSnapshot(state).bossHp = currentStage(state).boss.hp

(* ------------------- particles and damage texts (C22, C23) --------------- *)

\* calls followed from a fight thick with effects
VisualCalls == 2

\* A boss fight on the first stage thick with effects: particles of one age, all
\* that the cap allows or some less, and damage texts (ids 101 on, the oldest
\* first), all that the cap allows or one less.
Fireworks(characterId, particles, texts) ==
    [BossFight(characterId, 0, CHARACTER_CONFIGS[characterId].maxHp, TRUE) EXCEPT
        !.ids = 400,
        !.particles = << [life |-> 400, n |-> particles] >>,
        !.damageTexts = [i \in 1..texts |-> [id |-> 100 + i, life |-> 600]]]

InitVisual ==
    /\ state \in {Fireworks(c, MAX_PARTICLES - d, MAX_DAMAGE_TEXTS - e) :
                     c \in CharacterIds, d \in {0, 3, 40}, e \in {0, 1}}
    /\ call = NoCall

NextVisual ==
    \/ call.n < VisualCalls /\ Update
    \/ call.n < VisualCalls /\ ApplyUpgrade
    \/ call.n < VisualCalls /\ TogglePause
    \/ call.n < VisualCalls /\ AdvanceToNextStage
    \/ call.n < VisualCalls /\ ConsumeAudioEvents

SpecVisual == InitVisual /\ [][NextVisual]_vars

\* a damage text inserted at the cap takes the place of the oldest
TextsEvictOldest ==
    \A k \in 1..Len(call.texts) :
        LET t == call.texts[k]
        IN  /\ t.present
            /\ t.before >= MAX_DAMAGE_TEXTS => ~t.oldestKept /\ t.after = t.before
            /\ t.before < MAX_DAMAGE_TEXTS => t.oldestKept \/ t.before = 0

BurstsAtCap == {k \in 1..Len(call.bursts) : call.bursts[k].before >= MAX_PARTICLES}

VisualsWithinCaps ==
    /\ ParticleCount(state) <= MAX_PARTICLES
    /\ Len(state.damageTexts) <= MAX_DAMAGE_TEXTS

\* a tick filled both sets to their caps: a burst was cut to the room left and
\* a damage text took the last place
VisualsFilledToCaps ==
    /\ call.op = "update"
    /\ \E k \in 1..Len(call.bursts) :
           /\ call.bursts[k].before < MAX_PARTICLES
           /\ call.bursts[k].made < call.bursts[k].count
           /\ call.bursts[k].after = MAX_PARTICLES
    /\ \E k \in 1..Len(call.texts) :
           call.texts[k].before = MAX_DAMAGE_TEXTS - 1 /\ call.texts[k].after = MAX_DAMAGE_TEXTS
    /\ ParticleCount(state) = MAX_PARTICLES
    /\ Len(state.damageTexts) = MAX_DAMAGE_TEXTS

(* ------------------------------- combo (C24) ----------------------------- *)

\* the player took contact or telegraph damage in the update that led here
PlayerHit == call.op = "update" /\ call.hits > 0

\* C24 as stated: whenever the player takes contact or telegraph damage during
\* an update, the combo counter observed after that update is 0.
ComboZeroAfterHit == PlayerHit => state.combo = 0

\* C24, amended: whenever the player takes contact or telegraph damage during
\* an update, the combo counter observed after that update is the number of
\* monsters removed as dead in that update (0 when there is none), and 0 when
\* the boss's death cleared the stage in it.
ComboCountsKillsAfterHit ==
    PlayerHit => state.combo = IF state.stageClearReady THEN 0 ELSE Len(call.killed)

\* a tick in which the player was hit and a monster died: the combo of 2 was
\* reset by the hit and is 1 after the tick
HitAndKillInOneTick ==
    /\ PlayerHit
    /\ Len(call.killed) = 1
    /\ ~state.stageClearReady
    /\ state.combo = 1

(* ------------------------------ hit-stop (C25) --------------------------- *)

\* calls followed from a boss fight, the ticks of a hit-stop not counted
HitStopCalls == 2

\* deltaSeconds, in milliseconds: a fifth of the clamp, a frame above the clamp
HitStopDeltas == {10, 80}

InitHitStop ==
    /\ state \in {BossFight(c, 0, CHARACTER_CONFIGS[c].maxHp, FALSE) : c \in CharacterIds}
    /\ call = NoCall

\* the hit-stop is running
HitStop == state.hitStopTimer > 0 /\ ~state.paused

\* a tick of the frame loop while the hit-stop is running
HitStopTick == HitStop /\ \E d \in HitStopDeltas : UpdateBy(d, FALSE)

NextHitStop ==
    \/ call.n < HitStopCalls /\ ~HitStop /\ \E d \in HitStopDeltas : UpdateBy(d, TRUE)
    \/ call.n < HitStopCalls /\ TogglePause
    \/ HitStopTick

\* the frame loop calls update in every animation frame
SpecHitStop == InitHitStop /\ [][NextHitStop]_vars /\ WF_vars(HitStopTick)

Cosmetics == {"particles", "damageTexts", "slashes", "beams", "lightnings"}

\* the state without the cosmetic effects and the hit-stop timer: the player,
\* the monsters, projectiles, gems and telegraphs, the stage, spawn, skill,
\* boss-attack and grace timers, the flags and the counters
Gameplay(s) == [f \in (DOMAIN s \ (Cosmetics \cup {"hitStopTimer"})) |-> s[f]]

\* every effect of q that is left in r has aged by dt, and r holds nothing else
Aged(q, r, dt) ==
    /\ Len(r) <= Len(q)
    /\ \A j \in 1..Len(r) : \E i \in 1..Len(q) : r[j] = [q[i] EXCEPT !.life = @ - dt]

\* C25: while hitStopTimer > 0 and the game is not paused, update only
\* decrements hitStopTimer and advances cosmetic effects and the camera with a
\* scaled-down dt; player, monsters, projectiles, gems, telegraphs and the
\* stage, spawn, skill, boss-attack and grace timers are unchanged; with
\* positive dt the hit-stop ends after finitely many ticks.
HitStopFreezesGameplay ==
    /\ [][(HitStop /\ call'.op = "update" /\ call'.arg > 0) =>
             /\ state'.hitStopTimer = Max(0, state.hitStopTimer - Min(call'.arg, MaxDt))
             /\ Gameplay(state') = Gameplay(state)
             /\ ~call'.fullTick
             /\ Aged(state.damageTexts, state'.damageTexts,
                     (Min(call'.arg, MaxDt) * 45) \div 100)
             /\ Aged(state.particles, state'.particles,
                     (Min(call'.arg, MaxDt) * 45) \div 100)
             /\ Len(state'.slashes) <= Len(state.slashes)
             /\ Len(state'.beams) <= Len(state.beams)
             /\ Len(state'.lightnings) <= Len(state.lightnings)]_vars
    /\ (HitStop ~> ~HitStop)

\* two ticks of 10 ms into a hit-stop of 28 ms: 8 ms of it are left, and the
\* damage text of the hit has aged by 4 ms in each of them
HitStopRunning ==
    /\ call.op = "update"
    /\ call.arg = 10
    /\ ~call.fullTick
    /\ ~state.paused
    /\ state.hitStopTimer = 8
    /\ \E i \in 1..Len(state.damageTexts) : state.damageTexts[i].life = DAMAGE_TEXT_LIFE - 10 - 8

(* ------------------------- the next stage (C26) -------------------------- *)

\* handleAdvanceStage: the advance is asked for from outside
AdvanceRequest ==
    /\ Following
    /\ \E c \in {advanceToNextStage(Begin("advanceToNextStage", 0,
                                          [NoInput EXCEPT !.u = 50]))} :
           Step([c EXCEPT !.obs.ret = c.obs.advanced], ~state.stageClearReady)

NextAdvance ==
    \/ LiveUpdate
    \/ LiveUpgrade
    \/ AdvanceRequest

\* boss fights of the first and the fourth stage, followed until the next
\* stage begins, by the grace delay running out or on request
SpecAdvance == InitLive /\ [][NextAdvance]_vars

\* C26: a successful advanceToNextStage increases stageIndex by exactly 1
\* (never beyond 4), sets stageTimeLeft to the new stage's duration, clears
\* bossSpawned and bossId, empties the monster, projectile, gem and telegraph
\* sets, resets combo to 0, clears stageClearReady and paused, and raises
\* player.hp by 24% of maxHp capped at maxHp.
AdvanceBeginsNextStage ==
    [][call'.advanced =>
          /\ state'.stageIndex = state.stageIndex + 1
          /\ state'.stageIndex <= 4
          /\ state'.stageTimeLeft = STAGES[state'.stageIndex + 1].duration
          /\ ~state'.bossSpawned
          /\ state'.bossId = 0
          /\ state'.monsters = <<>>
          /\ state'.projectiles = <<>>
          /\ state'.gems = <<>>
          /\ state'.bossTelegraphs = <<>>
          /\ state'.combo = 0
          /\ ~state'.stageClearReady
          /\ ~state'.paused
          /\ state'.player.maxHp = state.player.maxHp
          /\ state'.player.hp = Min(state.player.maxHp,
                                    state.player.hp + (state.player.maxHp * 24) \div 100)]_vars

\* the last stage was begun on request by a wounded player, whose hp rose by
\* 24% of maxHp and stayed below maxHp
LastStageBegun ==
    /\ call.op = "advanceToNextStage"
    /\ call.advanced
    /\ state.stageIndex = 4
    /\ state.stageTimeLeft = STAGES[5].duration
    /\ state.player.hp > (state.player.maxHp * 24) \div 100
    /\ state.player.hp < state.player.maxHp
    /\ state.monsters = <<>>

(* --------------------------- the stage timer (C27) ----------------------- *)

\* the step stays in its stage
SameStage == state'.stageIndex = state.stageIndex

\* C27: regular monsters are spawned only while bossSpawned is false, and in
\* each stage the boss is spawned exactly once, in the tick in which
\* stageTimeLeft reaches 0; stageTimeLeft never goes below 0 and stops changing
\* once the boss has spawned.
BossSpawnsOnceWhenTimeIsUp ==
    /\ [](state.stageTimeLeft >= 0)
    /\ [](state.bossSpawned <=> state.stageTimeLeft = 0)
    /\ [][/\ call'.spawned > 0 => ~state.bossSpawned /\ ~state'.bossSpawned
          /\ call'.bossSpawns =
                 IF state.stageTimeLeft > 0 /\ state'.stageTimeLeft = 0 THEN 1 ELSE 0
          /\ call'.bossSpawns = 1 =>
                 /\ ~state.bossSpawned /\ state'.bossSpawned
                 /\ Cardinality(Bosses(state')) = Cardinality(Bosses(state)) + 1
          /\ (state.bossSpawned /\ SameStage) =>
                 /\ state'.bossSpawned
                 /\ state'.stageTimeLeft = state.stageTimeLeft
                 /\ Cardinality(Bosses(state')) <= Cardinality(Bosses(state))]_vars

\* the tick after the one in which the stage timer ran out with a spawn due:
\* the boss is there, the spawn timer is 70 ms below 0 and nothing was spawned
SpawnHeldByBoss ==
    /\ call.op = "update"
    /\ call.fullTick
    /\ call.n = 2
    /\ state.bossSpawned
    /\ state.stageTimeLeft = 0
    /\ state.spawnTimer = 30 - 2 * MaxDt
    /\ call.spawned = 0
    /\ call.bossSpawns = 0
    /\ Cardinality(Bosses(state)) = 1

(* ------------------------ telegraph emission (C28) ----------------------- *)

\* A boss fight on stage k with the boss about to attack; with blade > 0 the
\* player's blades (of that level) strike first in the tick.
Assault(characterId, k, blade) ==
    [BossFight(characterId, k, CHARACTER_CONFIGS[characterId].maxHp, FALSE)
        EXCEPT !.skills.blade = blade]

InitCast ==
    /\ state \in {Assault(c, k, blade) : c \in CharacterIds, k \in 0..(Len(STAGES) - 1),
                                        blade \in {0, 2}}
    /\ call = NoCall

SpecCast == InitCast /\ [][NextStrike]_vars

\* the kinds of telegraph of a stage
KindsOfStage(k) ==
    IF k = 0 THEN {"circle"} ELSE IF k = 1 THEN {"circle", "line"} ELSE TelegraphKinds

\* C28: new telegraphs are emitted only while a boss with hp > 0 is in the
\* monster set, at most one per tick, and their kind is gated by stage: on
\* stageIndex 0 only circle, on stageIndex 1 only circle or line, and cone only
\* on stageIndex >= 2.
TelegraphsFromLivingBoss ==
    [][/\ Len(call'.casts) <= 1
       /\ Len(call'.casts) = Len(call'.emitted)
       /\ \A k \in 1..Len(call'.casts) :
              LET cast == call'.casts[k]
              IN  /\ call'.fullTick
                  /\ cast.bossHp > 0
                  /\ cast.boss = state.bossId
                  /\ FindLivingBoss(state) # 0
                  /\ cast.stageIndex = state.stageIndex
                  /\ cast.kind \in KindsOfStage(state.stageIndex)]_vars

\* the boss of the third stage cast a cone
ConeCast ==
    /\ call.op = "update"
    /\ Len(call.casts) = 1
    /\ call.casts[1].kind = "cone"
    /\ call.casts[1].stageIndex = 2
    /\ \E i \in 1..Len(state.bossTelegraphs) : state.bossTelegraphs[i].kind = "cone"

\* the blades felled the boss in the tick in which its attack was due: nothing
\* was cast
FallenBossCastNothing ==
    /\ call.op = "update"
    /\ call.n = 1
    /\ call.bossDefeated
    /\ call.casts = <<>>
    /\ state.skills.blade = 2

(* ------------------------- levels in a tick (C29) ------------------------ *)

\* the gains of the call that brought a level or more
LevelingGains(c) == {i \in 1..Len(c.gains) : c.gains[i].levelAfter > c.gains[i].level}

\* C29: in any single update tick the player gains at most 24 levels, and
\* pendingLevelUps grows by exactly the number of levels gained in that tick.
LevelsOfATickArePending ==
    [][call'.op = "update" =>
          /\ state'.player.level >= state.player.level
          /\ state'.player.level - state.player.level <= MaxLevelsPerGain
          /\ state'.player.level - state.player.level = call'.levels
          /\ state'.pendingLevelUps - state.pendingLevelUps
                 = state'.player.level - state.player.level]_vars

\* a tick with two gains that each brought a level: the gem at the player's
\* feet, then the stage's gems collected as the boss fell; two upgrades are
\* pending
TwoLevelingGainsInOneTick ==
    /\ call.op = "update"
    /\ Cardinality(LevelingGains(call)) = 2
    /\ call.levels = 2
    /\ state.player.level = 3
    /\ state.pendingLevelUps = 2

(* ----------------------- the melee character (C30) ----------------------- *)

\* calls followed from a warrior's boss fight
MeleeCalls == 3

\* where the shuffled pool of makeUpgradeChoices starts: every place of a pool
\* of up to 14 upgrades
Shuffles == 0..13

\* the warrior's boss fights of the first stage, worth one level or two
InitMelee ==
    /\ state \in {Harvest("warrior"),
                  BossFight("warrior", 0, CHARACTER_CONFIGS["warrior"].maxHp, TRUE)}
    /\ call = NoCall

\* applyUpgrade with any upgrade id, the next choices (drawn when an upgrade is
\* still pending) with any shuffle
MeleeUpgrade ==
    \E type \in Asked,
       u \in (IF state.pendingLevelUps > 1 THEN Rolls ELSE {50}),
       seed \in (IF state.pendingLevelUps > 1 THEN Shuffles ELSE {0}) :
        Do(applyUpgrade(Begin("applyUpgrade", type,
                              [NoInput EXCEPT !.u = u, !.seed = seed]), type))

NextMelee ==
    \/ call.n < MeleeCalls /\ Update
    \/ call.n < MeleeCalls /\ MeleeUpgrade

SpecMelee == InitMelee /\ [][NextMelee]_vars

Melee == attackStyle(state) = "slash_projectile"

\* C30: for the melee (slash_projectile) character, no offered choice set ever
\* contains the ids 'projectiles' or 'pierce', and player.projectiles and
\* player.pierce never change under any sequence of applyUpgrade calls;
\* applying either id multiplies damage by 1.08 instead.
MeleeKeepsProjectilesAndPierce ==
    /\ [](Melee => \A i \in 1..Len(state.upgradeChoices) :
                       state.upgradeChoices[i] \notin {"projectiles", "pierce"})
    /\ [][Melee =>
             /\ state'.player.projectiles = state.player.projectiles
             /\ state'.player.pierce = state.player.pierce
             /\ (/\ call'.op = "applyUpgrade"
                 /\ call'.applied
                 /\ call'.arg \in {"projectiles", "pierce"}) =>
                    state'.player.damage = Scale(state.player.damage, 1080)]_vars

\* the warrior applied 'pierce' and then 'projectiles': the damage of 30 was
\* multiplied by 1.08 twice, pierce is 0 and projectiles is 1 as before
MeleeDamageInstead ==
    /\ Melee
    /\ call.op = "applyUpgrade"
    /\ call.applied
    /\ call.arg = "projectiles"
    /\ state.player.damage = Scale(Scale(30000, 1080), 1080)
    /\ state.player.pierce = 0
    /\ state.player.projectiles = 1

(* --------------------------- contact damage (C31) ------------------------ *)

\* the dt of the call that leads to the primed state
TickDt == clamp(call'.arg, 0, MaxDt)

\* C31: within one update at most one monster applies contact damage to the
\* player, and no contact damage is applied while the invincibility timer is
\* positive; a contact hit sets the invincibility timer so that further hits
\* are blocked until it has counted down to 0 in gameplay ticks.
OneContactPerInvincibilityWindow ==
    [][/\ Len(call'.contacts) <= 1
       /\ \A k \in 1..Len(call'.contacts) : call'.contacts[k].invincible = 0
       /\ call'.contacts # <<>> =>
              /\ call'.fullTick
              /\ state'.player.invincibleTimer = InvincibleTime
       /\ (call'.op = "update" /\ state.player.invincibleTimer > TickDt) =>
              /\ call'.hits = 0
              /\ state'.player.hp = state.player.hp
       /\ state'.player.invincibleTimer =
              IF call'.hits > 0 THEN InvincibleTime
              ELSE IF call'.fullTick THEN Max(0, state.player.invincibleTimer - TickDt)
              ELSE state.player.invincibleTimer]_vars

\* two living monsters overlapped the player in a tick: the first of them hit,
\* the second found the player invincible
SecondContactBlocked ==
    /\ call.op = "update"
    /\ call.touched = 2
    /\ Len(call.contacts) = 1
    /\ call.contacts[1].id = 11
    /\ call.hits = 1
    /\ state.player.invincibleTimer = InvincibleTime

\* a tick after a contact hit: a monster overlaps the player, who is still
\* invincible and is left alone
ContactBlockedNextTick ==
    /\ call.op = "update"
    /\ call.n = 2
    /\ call.touched >= 1
    /\ call.contacts = <<>>
    /\ state.player.invincibleTimer = InvincibleTime - MaxDt

(* --------------------------- pierce budget (C32) ------------------------- *)

\* calls followed from a volley in flight
PierceCalls == 4

\* the pierce stat of the sessions: none, one or two 'pierce' upgrades applied
Pierces == 0..2

\* A boss fight on the first stage with a shot in flight that was fired with
\* the player's pierce stat, the next volley about to be fired, and two
\* monsters that outlast the shots.
Volley(characterId, pierce) ==
    LET fight == BossFight(characterId, 0, CHARACTER_CONFIGS[characterId].maxHp, FALSE)
        style == CHARACTER_CONFIGS[characterId].attackStyle
    IN  [fight EXCEPT
            !.player.pierce = pierce,
            !.projectiles[1].pierceLeft = IF style = "arrow" THEN pierce ELSE @,
            !.projectiles[1].budget = IF style = "arrow" THEN pierce ELSE @,
            !.monsters[1].hp = 900000,
            !.monsters[2].hp = 900000,
            !.bossAttackCooldown = 1500]

InitPierce ==
    /\ state \in {Volley("archer", pierce) : pierce \in Pierces}
                 \cup {Volley("mage", pierce) : pierce \in Pierces}
                 \cup {Volley("warrior", 0)}
    /\ call = NoCall

\* a tick in which the shots overlap any of the monsters and nothing touches
\* the player
PierceTick ==
    \E struck \in SUBSET Targets, d \in DeltaSeconds :
        Do(update(Begin("update", d, [NoInput EXCEPT !.u = 50, !.struck = struck,
                                                     !.inRange = TRUE]), d))

NextPierce == call.n < PierceCalls /\ PierceTick

SpecPierce == InitPierce /\ [][NextPierce]_vars

\* C32: a projectile created with pierce budget k applies at most k + 1 direct
\* hits over its whole lifetime, each hit with budget left decrements
\* pierceLeft by 1, a hit with pierceLeft = 0 removes the projectile in that
\* tick, and pierceLeft is never negative.
PierceBudgetBoundsHits ==
    /\ \A i \in 1..Len(state.projectiles) :
           LET p == state.projectiles[i]
           IN  /\ p.pierceLeft >= 0
               /\ p.hits + p.pierceLeft = p.budget
    /\ \A k \in 1..Len(call.flown) :
           LET r == call.flown[k]
           IN  /\ r.pierceLeftAfter >= 0
               /\ r.total <= r.budget + 1
               /\ r.destroyed <=> r.total = r.budget + 1
               /\ r.destroyed <=> r.hits = r.pierceLeft + 1
               /\ r.destroyed => /\ r.pierceLeftAfter = 0
                                 /\ r.id \notin Ids(state.projectiles)
               /\ ~r.destroyed => r.pierceLeftAfter = r.pierceLeft - r.hits
               /\ (~r.destroyed /\ r.life > 0) => r.id \in Ids(state.projectiles)

\* an arrow fired with pierce 2 made its third hit, in a later tick than the
\* first two, and was removed by it
ThirdHitEndsPierceTwo ==
    \E k \in 1..Len(call.flown) :
        LET r == call.flown[k]
        IN  /\ r.budget = 2
            /\ r.total = 3
            /\ r.hits = 1
            /\ r.pierceLeft = 0
            /\ r.destroyed
            /\ r.id \notin Ids(state.projectiles)

(* ------------------------ game over and victory (C33) -------------------- *)

\* C33: gameOver and victory are never both true in the same state, even when
\* the player's hp reaches 0 and the final boss's hp reaches <= 0 in the same
\* tick.
GameOverExcludesVictory == ~(state.gameOver /\ state.victory)

\* one tick of the last stage's boss fight felled the player and the boss
PlayerAndFinalBossFall ==
    /\ call.op = "update"
    /\ call.n = 1
    /\ call.fullTick
    /\ call.hits = 1
    /\ call.bossDefeated
    /\ state.stageIndex = 4
    /\ state.player.hp = 0
    /\ state.gameOver
    /\ state.victory

(* ------------------------- pause and the gates (C34) --------------------- *)

\* the session is in the plain playing state
Playing(s) == ~(s.awaitingUpgrade \/ s.stageClearReady \/ s.gameOver \/ s.victory)

\* C34: paused is never true together with awaitingUpgrade, stageClearReady,
\* gameOver or victory: a paused session can only be in the plain playing
\* state, and togglePause can always unpause it.
PausedOnlyWhilePlaying ==
    /\ [](state.paused => Playing(state))
    /\ [][(call'.op = "togglePause" /\ state.paused) =>
              /\ ~state'.paused
              /\ call'.ret = FALSE
              /\ state' = [state EXCEPT !.paused = FALSE]]_vars

\* the third call of a session is a togglePause that resumed a paused boss fight
PausedFightResumed ==
    /\ call.op = "togglePause"
    /\ call.n = 3
    /\ call.ret = FALSE
    /\ ~state.paused
    /\ Playing(state)
    /\ state.bossId # 0

(* ---------------------- one telegraph at a time (C35) -------------------- *)

\* calls followed from a boss fight with a telegraph pending or due
GapCalls == 3

\* the life a circle telegraph is emitted with, the longest of the three
LongestTelegraphLife == 1050

\* the life a telegraph of a kind is emitted with
TelegraphLife(kind) == IF kind = "cone" THEN 1020 ELSE IF kind = "line" THEN 920 ELSE 1050

\* the shortest cooldown an emission can set on stage k, and on any stage
ShortestCooldownOf(k) == Scale(Max(2100, 4200 - k * 320), 900)
ShortestAttackCooldown == Scale(2100, 900)

\* the kinds of telegraph the boss of stage k casts
KindsCast(k) ==
    {"circle"} \cup (IF k >= 1 THEN {"line"} ELSE {}) \cup (IF k >= 2 THEN {"cone"} ELSE {})

\* A boss fight on stage k in which a telegraph of the kind has left ms to
\* live and the boss's attack has cooled down for as long as the telegraph has
\* lived, from the shortest cooldown the emission could set.
Barrage(characterId, k, kind, left) ==
    [BossFight(characterId, k, CHARACTER_CONFIGS[characterId].maxHp, TRUE) EXCEPT
        !.bossTelegraphs[1].kind = kind,
        !.bossTelegraphs[1].life = left,
        !.bossAttackCooldown = ShortestCooldownOf(k) - (TelegraphLife(kind) - left)]

Barrages ==
    {Barrage("mage", k, kind, left) : k \in 0..(Len(STAGES) - 1), kind \in TelegraphKinds,
                                      left \in {40, 90}}

\* the eves of the boss fights, fights with the attack due, fights with a
\* telegraph pending
InitGap ==
    /\ state \in {Eve("mage", k, 40) : k \in {0, 4}}
                 \cup {Assault("mage", k, 0) : k \in 0..(Len(STAGES) - 1)}
                 \cup {b \in Barrages : b.bossTelegraphs[1].kind \in KindsCast(b.stageIndex)}
    /\ call = NoCall

NextGap ==
    \/ call.n < GapCalls /\ Update
    \/ call.n < GapCalls /\ AdvanceToNextStage

SpecGap == InitGap /\ [][NextGap]_vars

\* the telegraph of the old state was aged by dt in the step: resolved, kept
\* with its life lowered, or cleared with the boss's fall
AgedBy(t, dt) ==
    IF t.life <= dt
    THEN /\ t.id \in Range(call'.resolved)
         /\ t.id \notin Ids(state'.bossTelegraphs)
    ELSE \/ call'.bossDefeated /\ state'.bossTelegraphs = <<>>
         \/ \E j \in 1..Len(state'.bossTelegraphs) :
                /\ state'.bossTelegraphs[j].id = t.id
                /\ state'.bossTelegraphs[j].life = t.life - dt

\* the step set the boss's attack cooldown: a boss spawned, a telegraph was
\* emitted, or the next stage began
CooldownSet == call'.bossSpawns > 0 \/ call'.emitted # <<>> \/ call'.advanced

\* C35: at most one boss telegraph is in the active set at any time: every
\* boss-attack cooldown (initial, after boss spawn, after each emission, after
\* a stage advance) is longer than the longest telegraph life, and both count
\* down in the same gameplay ticks.
OneTelegraphAtATime ==
    /\ [](Len(state.bossTelegraphs) <= 1)
    /\ [](\A i \in 1..Len(state.bossTelegraphs) :
              /\ state.bossTelegraphs[i].life <= LongestTelegraphLife
              /\ state.bossAttackCooldown - state.bossTelegraphs[i].life
                     >= ShortestAttackCooldown - LongestTelegraphLife)
    /\ [][IF CooldownSet
          THEN /\ state'.bossAttackCooldown >= ShortestAttackCooldown
               /\ state'.bossAttackCooldown > LongestTelegraphLife
               /\ state.bossTelegraphs = <<>>
          ELSE \/ state'.bossAttackCooldown = state.bossAttackCooldown
               \/ /\ call'.fullTick
                  /\ state'.bossAttackCooldown = state.bossAttackCooldown - TickDt
                  /\ \A i \in 1..Len(state.bossTelegraphs) :
                         AgedBy(state.bossTelegraphs[i], TickDt)]_vars

\* the boss outlived its telegraph: the telegraph resolved in this tick, none
\* was emitted since, and the attack has more than a second left to cool down
TelegraphResolvedBeforeNext ==
    /\ call.op = "update"
    /\ call.resolved # <<>>
    /\ call.emitted = <<>>
    /\ state.bossTelegraphs = <<>>
    /\ FindLivingBoss(state) # 0
    /\ state.stageIndex = 4
    /\ state.bossAttackCooldown = ShortestCooldownOf(4) - LongestTelegraphLife - 10

\* the boss cast a telegraph into an empty set and its attack cools down anew
TelegraphCastAlone ==
    /\ call.op = "update"
    /\ Len(call.emitted) = 1
    /\ Len(state.bossTelegraphs) = 1
    /\ state.bossAttackCooldown >= ShortestCooldownOf(state.stageIndex)

(* ------------------- projectiles and fallen monsters (C36) --------------- *)

\* C36: a projectile hit (direct or area-of-effect) is only applied to a
\* monster whose hp is > 0 at the moment of the hit: a monster whose hp already
\* dropped to <= 0 earlier in the same tick takes no further projectile damage
\* and consumes no pierce budget.
ShotsHitLivingOnly ==
    \A k \in 1..Len(call.shots) : call.shots[k].hpBefore > 0

\* two arrows of one tick: the first felled the monster, the second hit it
\* again and was used up by the hit
ArrowSpentOnFallen ==
    /\ call.op = "update"
    /\ state.characterId = "archer"
    /\ \E j, k \in 1..Len(call.shots) :
           /\ j < k
           /\ call.shots[j].monster = call.shots[k].monster
           /\ call.shots[j].id # call.shots[k].id
           /\ call.shots[j].hpBefore > 0
           /\ call.shots[k].hpBefore <= 0
           /\ ~call.shots[k].aoe
           /\ \E f \in 1..Len(call.flown) :
                  /\ call.flown[f].id = call.shots[k].id
                  /\ call.flown[f].destroyed
                  /\ call.flown[f].hits = 1

\* the explosion of a magic projectile damaged a monster that another shot of
\* the tick had felled
BlastOnFallen ==
    \E k \in 1..Len(call.shots) : call.shots[k].aoe /\ call.shots[k].hpBefore <= 0

(* ------------------------ upgrades not offered (C37) --------------------- *)

\* the level-up gate is open
GateOpen(s) == s.awaitingUpgrade /\ s.pendingLevelUps > 0

\* what an upgrade can change
Upgraded(s) == [stats |-> Stats(s.player), skills |-> s.skills, hp |-> s.player.hp]

\* C37 as stated: applyUpgrade(type) changes player stats or skill levels and
\* consumes a pending choice only when type is the id of one of the currently
\* offered upgradeChoices; with an id that is not offered the state is
\* unchanged.
UnofferedUpgradeIgnored ==
    [][(call'.op = "applyUpgrade" /\ call'.arg \notin Range(state.upgradeChoices)) =>
           state' = state]_vars

\* C37, amended: applyUpgrade(type) changes player stats or skill levels and
\* consumes a pending choice whenever the level-up gate is open
\* (awaitingUpgrade and pendingLevelUps > 0), whether or not type is among the
\* offered upgradeChoices; with the gate closed the state is unchanged.
UpgradeAppliedWheneverGateOpen ==
    [][call'.op = "applyUpgrade" =>
           IF GateOpen(state)
           THEN /\ call'.applied
                /\ state'.pendingLevelUps = state.pendingLevelUps - 1
                /\ LET type == call'.arg
                       skill == SKILL_UPGRADE_MAP(type)
                   IN  /\ skill # "none" =>
                              state'.skills[skill] = Min(MaxSkillLevel, state.skills[skill] + 1)
                       /\ type = "damage" =>
                              state'.player.damage = Scale(state.player.damage, 1150)
                       /\ type = "maxHp" => state'.player.maxHp = state.player.maxHp + 20000
                       /\ type = "magnet" =>
                              state'.player.magnetRadius = state.player.magnetRadius + 60
                       /\ \/ Upgraded(state') # Upgraded(state)
                          \/ type \in {"heal", "crit", "armor", "attackSpeed"}
                          \/ skill # "none" /\ state.skills[skill] = MaxSkillLevel
           ELSE /\ ~call'.applied
                /\ state' = state]_vars

\* an upgrade that was not among the three on offer was applied: the magnet
\* radius grew and the pending choice is gone
UnofferedUpgradeApplied ==
    /\ call.op = "applyUpgrade"
    /\ call.applied
    /\ call.arg = "magnet"
    /\ Len(call.offered) = 3
    /\ call.arg \notin Range(call.offered)
    /\ state.player.magnetRadius =
           createInitialState(state.characterId).player.magnetRadius + 60
    /\ state.pendingLevelUps = 0

(* ------------------------------ stageIndex (C38) ------------------------- *)

\* the index of the last stage
LastStage == Len(STAGES) - 1

\* C38: stageIndex only ever changes by +1, always stays within 0..4,
\* stageClearReady is true only while stageIndex < 4, and victory is true only
\* while stageIndex = 4.
StageIndexStepsUpToLast ==
    /\ [](/\ state.stageIndex \in 0..LastStage
          /\ state.stageClearReady => state.stageIndex < LastStage
          /\ state.victory => state.stageIndex = LastStage)
    /\ [][state'.stageIndex # state.stageIndex =>
              /\ state'.stageIndex = state.stageIndex + 1
              /\ call'.advanced
              /\ state.stageClearReady
              /\ ~state'.stageClearReady]_vars

\* the first stage's boss fell, the stage was cleared, and the request that
\* followed began the second stage
SecondStageBegunOnRequest ==
    /\ call.op = "advanceToNextStage"
    /\ call.advanced
    /\ call.ret
    /\ state.stageIndex = 1
    /\ ~state.stageClearReady
    /\ ~state.victory

\* the last stage's boss fell: victory, on stage index 4, with no stage clear
VictoryOnLastStage ==
    /\ call.op = "update"
    /\ call.bossDefeated
    /\ state.victory
    /\ state.stageIndex = LastStage
    /\ ~state.stageClearReady

(* ---------------------------- fallen monsters (C39) ---------------------- *)

\* the regular monsters among the fallen of the step, in the order they fell
FallenRegulars == SelectSeq(call'.fallen, LAMBDA m : ~m.isBoss)

\* C39: at the end of every update call every monster in the set has hp > 0:
\* each monster whose hp dropped to <= 0 is removed in that same tick,
\* increments kills exactly once, and (if not a boss) contributes its exp value
\* exactly once to the gem set.
FallenRemovedAndCountedOnce ==
    /\ [](\A i \in 1..Len(state.monsters) : state.monsters[i].hp > 0)
    /\ [][/\ state'.kills = state.kills + Len(call'.fallen)
          /\ NoDuplicates([k \in 1..Len(call'.fallen) |-> call'.fallen[k].id])
          /\ \A k \in 1..Len(call'.fallen) :
                 /\ call'.fallen[k].hp <= 0
                 /\ call'.fallen[k].id \notin Ids(state'.monsters)
          /\ \A i \in 1..Len(state.monsters) :
                 \/ state.monsters[i].id \in Ids(state'.monsters)
                 \/ \E k \in 1..Len(call'.fallen) :
                        call'.fallen[k].id = state.monsters[i].id
                 \/ call'.bossDefeated /\ state'.stageClearReady
                 \/ call'.advanced
          /\ Len(call'.drops) = Len(FallenRegulars)
          /\ \A k \in 1..Len(call'.drops) :
                 /\ call'.drops[k].value = FallenRegulars[k].expValue
                 /\ call'.drops[k].sumAfter = call'.drops[k].sumBefore + call'.drops[k].value
          /\ call'.fallen # <<>> => call'.fullTick]_vars

\* a tick felled a regular monster and the boss: both are gone, kills rose by
\* two, and the regular monster's exp went into the gems once
MonsterAndBossFell ==
    /\ call.op = "update"
    /\ Len(call.fallen) = 2
    /\ ~call.fallen[1].isBoss
    /\ call.fallen[2].isBoss
    /\ state.kills = 8
    /\ state.monsters = <<>>
    /\ Len(call.drops) = 1
    /\ call.drops[1].value = call.fallen[1].expValue
    /\ call.dropped = call.fallen[1].expValue

\* a tick felled one of two monsters: the other is still in the set
OneFellOneLeft ==
    /\ call.op = "update"
    /\ Len(call.fallen) = 1
    /\ Len(state.monsters) >= 1
    /\ ~call.bossDefeated

(* ----------------------- exp below the threshold (C40) ------------------- *)

\* C40: after every experience gain, 0 <= player.exp < player.expToNext: no
\* experience at or above the current level threshold is left unconverted into
\* a level.
ExpBelowThreshold ==
    /\ 0 <= state.player.exp
    /\ state.player.exp < state.player.expToNext
    /\ state.player.expToNext = NeedAt(state.player.level)
    /\ \A i \in 1..Len(call.gains) :
           LET g == call.gains[i]
           IN  /\ 0 <= g.expAfter
               /\ g.expAfter < g.expToNextAfter
               /\ g.expToNextAfter = NeedAt(g.levelAfter)
               /\ NeedBelow(g.levelAfter) + g.expAfter
                      = NeedBelow(g.level) + g.exp + g.amount

\* one gain was worth two levels: both were taken and what is left is below
\* the third threshold
GainOfTwoLevels ==
    \E i \in 1..Len(call.gains) :
        LET g == call.gains[i]
        IN  /\ g.level = 1
            /\ g.levelAfter = 3
            /\ g.exp + g.amount >= NeedAt(1) + NeedAt(2)
            /\ g.expAfter < NeedAt(3)
            /\ state.player.level = 3
            /\ state.pendingLevelUps = 2
====
